---------------------------- MODULE Spec2Model ----------------------------
(***************************************************************************)
(* SynapSense modality I/O layer: extension table, IORegistry, the four    *)
(* codecs (DVSIO, LidarIO, IMUIO, RGBImageIO) and the ModalityIO facade.   *)
(*                                                                         *)
(* Strings that the code inspects character by character (file names and   *)
(* extensions) are sequences of one-character strings.  Python values are  *)
(* records tagged by a "kind" field.                                       *)
(***************************************************************************)
EXTENDS Integers, Sequences, FiniteSets, TLC

VARIABLES
    path,         \* the path the caller works on
    bundle,       \* the bundle the caller writes
    initialized,  \* the facade module has run its import loop
    readers,      \* IORegistry.readers : modality -> codec class
    writers,      \* IORegistry.writers
    fs,           \* the file system: path -> file content (or NoFile)
    dirs,         \* the directories that exist
    written,      \* the modality whose write produced the file at path
    last,         \* the last call made and what it returned or raised
    history,      \* the register calls made on the registry, in order
    resolved,     \* what resolve_modality_from_extension has returned for path
    imu,          \* the fields of the caller's IMUIO instance (None: no instance)
    logger_manager \* LoggerManager's class attributes and the loggers of logging

vars == <<path, bundle, initialized, readers, writers, fs, dirs, written, last,
          history, resolved, imu, logger_manager>>

\* what the facade's operations never touch
others == <<history, resolved, imu, logger_manager>>

(***************************************************************************)
(* Bounds of the model.                                                    *)
(***************************************************************************)
MaxRows == 2

(***************************************************************************)
(* str.lower() on the characters that occur in file names.                 *)
(***************************************************************************)
UpperChars == <<"A", "B", "C", "D", "E", "G", "I", "J", "L", "M", "N", "P",
                "S", "T", "V", "X", "Y", "Z">>
LowerChars == <<"a", "b", "c", "d", "e", "g", "i", "j", "l", "m", "n", "p",
                "s", "t", "v", "x", "y", "z">>

LowerChar(c) ==
    IF \E i \in 1..Len(UpperChars) : UpperChars[i] = c
    THEN LowerChars[CHOOSE i \in 1..Len(UpperChars) : UpperChars[i] = c]
    ELSE c

lower(s) == [i \in 1..Len(s) |-> LowerChar(s[i])]

(***************************************************************************)
(* pathlib: Path(p).suffix and Path(p).parent.  A path is a record         *)
(* [parent, name]; the suffix starts at the last dot of the name unless    *)
(* that dot is the first or the last character.                            *)
(***************************************************************************)
rfind_dot(name) ==
    IF \E i \in 1..Len(name) : name[i] = "."
    THEN CHOOSE i \in 1..Len(name) :
            /\ name[i] = "."
            /\ \A j \in (i + 1)..Len(name) : name[j] # "."
    ELSE 0

suffix(file_path) ==
    LET name == file_path.name
        i == rfind_dot(name)
    IN  IF 1 < i /\ i < Len(name) THEN SubSeq(name, i, Len(name)) ELSE <<>>

parent(file_path) == file_path.parent

(***************************************************************************)
(* configs/modality_config.py                                              *)
(***************************************************************************)
Modalities == <<"dvs", "lidar", "imu", "rgb">>   \* dict insertion order

ModalitySet == {Modalities[i] : i \in 1..Len(Modalities)}

SUPPORTED_EXTENSIONS ==
    [m \in ModalitySet |->
        CASE m = "dvs" ->
               [read  |-> << <<".", "a", "e", "d", "a", "t", "4">>,
                             <<".", "t", "x", "t">>,
                             <<".", "c", "s", "v">> >>,
                write |-> << <<".", "a", "e", "d", "a", "t", "4">>,
                             <<".", "c", "s", "v">> >>]
          [] m = "lidar" ->
               [read  |-> << <<".", "p", "c", "d">>, <<".", "p", "l", "y">>,
                             <<".", "l", "a", "s">>, <<".", "l", "a", "z">>,
                             <<".", "b", "i", "n">> >>,
                write |-> << <<".", "p", "c", "d">>, <<".", "p", "l", "y">>,
                             <<".", "l", "a", "s">>, <<".", "l", "a", "z">>,
                             <<".", "b", "i", "n">> >>]
          [] m = "imu" ->
               [read  |-> << <<".", "c", "s", "v">>, <<".", "t", "x", "t">> >>,
                write |-> << <<".", "c", "s", "v">> >>]
          [] m = "rgb" ->
               [read  |-> << <<".", "p", "n", "g">>, <<".", "j", "p", "g">>,
                             <<"j", "p", "e", "g">>, <<".", "b", "m", "p">> >>,
                write |-> << <<".", "p", "n", "g">>, <<".", "j", "p", "g">> >>]]

LowerSet(exts) == {lower(exts[i]) : i \in 1..Len(exts)}

(***************************************************************************)
(* modality_io/utils.py                                                    *)
(***************************************************************************)
validate_extension(file_path, supported_extensions) ==
    lower(suffix(file_path)) \in LowerSet(supported_extensions)

get_file_extension(file_path) == lower(suffix(file_path))

NoModality == "None"

\* a scan that keeps the last match instead of returning at the first
RECURSIVE ResolveScanLastMatch(_, _, _)
ResolveScanLastMatch(i, ext, operation) ==
    IF i > Len(Modalities) THEN NoModality
    ELSE LET rest == ResolveScanLastMatch(i + 1, ext, operation)
         IN  IF rest # NoModality THEN rest
             ELSE IF ext \in LowerSet(SUPPORTED_EXTENSIONS[Modalities[i]][operation])
                  THEN Modalities[i]
                  ELSE NoModality

\* the for loop of resolve_modality_from_extension, from position i on
RECURSIVE ResolveScan(_, _, _)
ResolveScan(i, ext, operation) ==
    IF i > Len(Modalities) THEN NoModality
    ELSE IF ext \in LowerSet(SUPPORTED_EXTENSIONS[Modalities[i]][operation])
         THEN Modalities[i]
         ELSE ResolveScan(i + 1, ext, operation)

\* a resolution that returns only a modality the registry has a reader for
resolve_modality_from_extension_Registered(file_path, operation) ==
    LET modality == ResolveScan(1, get_file_extension(file_path), operation)
    IN  IF modality \in DOMAIN readers THEN modality ELSE NoModality

resolve_modality_from_extension(file_path, operation) ==
    ResolveScan(1, get_file_extension(file_path), operation)

(***************************************************************************)
(* modality_io/base_io.py                                                  *)
(***************************************************************************)
\* a membership test that compares the extension as it was given
BaseIO_validate_extension_AsGiven(file_ext, supported_extensions) ==
    IF file_ext = <<>> THEN FALSE
    ELSE file_ext \in LowerSet(supported_extensions)

BaseIO_validate_extension(file_ext, supported_extensions) ==
    IF file_ext = <<>> THEN FALSE
    ELSE lower(file_ext) \in LowerSet(supported_extensions)

NoClass == "None"

\* dict[key] = value
DictSet(d, key, value) ==
    [k \in (DOMAIN d) \cup {key} |-> IF k = key THEN value ELSE d[k]]

\* a registration that keeps an entry already present (dict.setdefault)
register_reader_KeepFirst(rd, modality, cls) ==
    IF modality \in DOMAIN rd THEN rd ELSE DictSet(rd, modality, cls)

register_reader(rd, modality, cls) == DictSet(rd, modality, cls)

register_writer(wr, modality, cls) == DictSet(wr, modality, cls)

get_reader(rd, modality) == IF modality \in DOMAIN rd THEN rd[modality] ELSE NoClass

get_writer(wr, modality) == IF modality \in DOMAIN wr THEN wr[modality] ELSE NoClass

\* a lookup by subscript, cls.readers[modality], which raises on a missing key
IORegistry_get_reader_Subscript(rd, modality) ==
    IF modality \in DOMAIN rd THEN [outcome |-> "ok", value |-> rd[modality]]
    ELSE [outcome |-> "KeyError", value |-> NoClass]

\* the calls IORegistry.get_reader(modality) and get_writer(modality):
\* dict.get returns, for a key that is present or not
IORegistry_get_reader(rd, modality) ==
    [outcome |-> "ok", value |-> get_reader(rd, modality)]

IORegistry_get_writer(wr, modality) ==
    [outcome |-> "ok", value |-> get_writer(wr, modality)]

(***************************************************************************)
(* Python values.  A dict key that is missing maps to Absent.              *)
(***************************************************************************)
PyNone == [kind |-> "None"]

Absent == [kind |-> "absent"]

PyList(items) == [kind |-> "list", items |-> items]

\* numpy.ndarray: shape, dtype and the elements in row-major order
ndarray(shape, dtype, vals) ==
    [kind |-> "ndarray", shape |-> shape, dtype |-> dtype, vals |-> vals]

DataBundle(data, timestamps, columns) ==
    [kind |-> "dict", data |-> data, timestamps |-> timestamps, columns |-> columns]

isinstance_ndarray(v) == v.kind = "ndarray"

\* dict.get(key) and dict.get(key, default)
dict_get(v) == IF v = Absent THEN PyNone ELSE v

dict_get_default(v, default) == IF v = Absent THEN default ELSE v

ndim(a) == Len(a.shape)

nrows(a) == a.shape[1]

ncols(a) == a.shape[2]

\* row r of a 2-D array
Row(a, r) == SubSeq(a.vals, (r - 1) * ncols(a) + 1, r * ncols(a))

\* the rows of a 2-D array as a sequence of sequences
Rows(a) == [r \in 1..nrows(a) |-> Row(a, r)]

\* np.array(rows) for rows of equal length c
RECURSIVE Flatten(_)
Flatten(rows) == IF rows = <<>> THEN <<>> ELSE Head(rows) \o Flatten(Tail(rows))

FromRows(rows, c, dtype) == ndarray(<<Len(rows), c>>, dtype, Flatten(rows))

(***************************************************************************)
(* IEEE single precision on the integers of the model: exact up to 2^24,   *)
(* rounded to the nearest even multiple of two from there to 2^25.         *)
(***************************************************************************)
F32Exact == 16777216

float32(v) ==
    IF v <= F32Exact \/ v % 2 = 0 THEN v
    ELSE IF ((v + 1) \div 2) % 2 = 0 THEN v + 1 ELSE v - 1

astype_float32(a) ==
    ndarray(a.shape, "float32", [i \in 1..Len(a.vals) |-> float32(a.vals[i])])

\* data[:, :k] of a 2-D array
FirstCols(a, k) ==
    FromRows([r \in 1..nrows(a) |-> SubSeq(Row(a, r), 1, k)], k, a.dtype)

(***************************************************************************)
(* Files.  A file holds what the format library stored in it.              *)
(***************************************************************************)
NoFile == [kind |-> "nofile"]

\* a delimited text file: header line, numeric rows, the delimiter used
CsvFile(header, rows, sep, dtype) ==
    [kind |-> "csv", header |-> header, rows |-> rows, sep |-> sep, dtype |-> dtype]

\* raw float32 values (ndarray.tofile)
BinFile(vals) == [kind |-> "bin", vals |-> vals]

\* a point cloud container (.pcd, .ply, .las, .laz): XYZ rows
CloudFile(fmt, pts) == [kind |-> "cloud", fmt |-> fmt, pts |-> pts]

\* an encoded image: shape (H, W, 3), pixels in the library's BGR order
ImageFile(fmt, shape, pix) == [kind |-> "image", fmt |-> fmt, shape |-> shape, pix |-> pix]

\* a directory standing at the path: nothing can be opened for writing there
Directory == [kind |-> "dir"]

exists(f, file_path) == f[file_path] # NoFile

\* open(file_path, 'w') succeeds
writable(f, file_path) == f[file_path] # Directory

Range(seq) == {seq[i] : i \in 1..Len(seq)}

\* what a codec call returns or raises, with the I/O steps it took in order
Return(value, steps) == [outcome |-> "ok", value |-> value, steps |-> steps]

Raise(error, steps) == [outcome |-> error, value |-> PyNone, steps |-> steps]

\* what a codec write leaves behind
Wrote(outcome, f, d, steps) == [outcome |-> outcome, fs |-> f, dirs |-> d, steps |-> steps]

(***************************************************************************)
(* pandas                                                                  *)
(***************************************************************************)
\* str.lower() on column labels
LowerName(c) ==
    CASE c = "T" -> "t" [] c = "X" -> "x" [] c = "Y" -> "y" [] c = "Z" -> "z"
      [] c = "P" -> "p" [] c = "GYRO_X" -> "gyro_x" [] c = "GYRO_Y" -> "gyro_y"
      [] c = "GYRO_Z" -> "gyro_z" [] c = "Accel_X" -> "accel_x"
      [] c = "Timestamp" -> "timestamp" [] c = "Time" -> "time"
      [] OTHER -> c

\* pd.read_csv: a DataFrame [columns, rows, dtype], or ok = FALSE when it raises
\* (no such file, not a text table).  A file read with the wrong delimiter
\* parses as one column holding the whole line.
read_csv(f, file_path, sep) ==
    LET c == f[file_path]
    IN  IF c.kind # "csv"
        THEN [ok |-> FALSE, columns |-> <<>>, rows |-> <<>>, dtype |-> "object"]
        ELSE IF c.sep # sep
        THEN [ok |-> TRUE, columns |-> <<"<line>">>,
              rows |-> [r \in 1..Len(c.rows) |-> <<0>>], dtype |-> "object"]
        ELSE [ok |-> TRUE, columns |-> c.header, rows |-> c.rows, dtype |-> c.dtype]

ColumnIndex(df, name) == CHOOSE i \in 1..Len(df.columns) : df.columns[i] = name

\* df[name].to_numpy()
Series(df, name) ==
    ndarray(<<Len(df.rows)>>, df.dtype,
            [r \in 1..Len(df.rows) |-> df.rows[r][ColumnIndex(df, name)]])

\* df[names].to_numpy(dtype=np.float32)
SelectFloat32(df, names) ==
    astype_float32(
        FromRows([r \in 1..Len(df.rows) |->
                    [k \in 1..Len(names) |-> df.rows[r][ColumnIndex(df, names[k])]]],
                 Len(names), df.dtype))

RangeIndexNames == <<"0", "1", "2", "3", "4", "5", "6", "7">>

\* pd.DataFrame(data, columns=columns): ok = FALSE when the constructor raises
\* (data not 2-D, or a label count different from the column count)
DataFrame(data, columns) ==
    IF ndim(data) # 2
    THEN IF ndim(data) = 1 /\ columns.kind = "list" /\ Len(columns.items) = 1
         THEN [ok |-> TRUE, columns |-> columns.items,
               rows |-> [r \in 1..Len(data.vals) |-> <<data.vals[r]>>],
               dtype |-> data.dtype]
         ELSE [ok |-> FALSE, columns |-> <<>>, rows |-> <<>>, dtype |-> data.dtype]
    ELSE IF columns.kind = "None"
    THEN [ok |-> TRUE, columns |-> SubSeq(RangeIndexNames, 1, ncols(data)),
          rows |-> Rows(data), dtype |-> data.dtype]
    ELSE IF columns.kind # "list" \/ Len(columns.items) # ncols(data)
    THEN [ok |-> FALSE, columns |-> <<>>, rows |-> <<>>, dtype |-> data.dtype]
    ELSE [ok |-> TRUE, columns |-> columns.items, rows |-> Rows(data), dtype |-> data.dtype]

\* df.to_csv(file_path, index=False)
to_csv(df) == CsvFile(df.columns, df.rows, ",", df.dtype)

\* Path(directory_path).mkdir(parents=True, exist_ok=True)
ensure_directory_exists(d, directory_path) == d \cup {directory_path}

\* the optional event-container libraries (try: import ... except ImportError)
aedat_installed == FALSE

dv_installed == FALSE

(***************************************************************************)
(* The extensions the codecs branch on.                                    *)
(***************************************************************************)
dot_csv == <<".", "c", "s", "v">>
dot_txt == <<".", "t", "x", "t">>
dot_aedat4 == <<".", "a", "e", "d", "a", "t", "4">>
dot_pcd == <<".", "p", "c", "d">>
dot_ply == <<".", "p", "l", "y">>
dot_las == <<".", "l", "a", "s">>
dot_laz == <<".", "l", "a", "z">>
dot_bin == <<".", "b", "i", "n">>

TXYP == <<"t", "x", "y", "p">>

\* an event container: a sequence of packets, each a sequence of <<t, x, y, on>>
AedatFile(packets) == [kind |-> "aedat4", packets |-> packets]

(***************************************************************************)
(* modality_io/dvs_io.py                                                   *)
(***************************************************************************)
\* the .aedat4 branch of DVSIO.read with the aedat library present
DVSIO_read_aedat4(f, file_path) ==
    LET c == f[file_path]
    IN  IF c.kind # "aedat4" THEN Raise("UnderlyingIOFailure", <<"open">>)
        ELSE IF c.packets = <<>> THEN Raise("UnderlyingIOFailure", <<"open", "parse">>)
        ELSE LET events == FromRows(Flatten(c.packets), 4, "float64")
             IN  Return(DataBundle(events,
                                   ndarray(<<nrows(events)>>, "float64",
                                           [r \in 1..nrows(events) |-> Row(events, r)[1]]),
                                   PyList(TXYP)),
                        <<"open", "parse">>)

DVSIO_read(f, file_path) ==
    LET file_ext == get_file_extension(file_path)
    IN  IF ~validate_extension(file_path, SUPPORTED_EXTENSIONS["dvs"].read)
        THEN Raise("UnsupportedFormat", <<>>)
        ELSE IF file_ext \in {dot_csv, dot_txt}
        THEN LET df == read_csv(f, file_path, IF file_ext = dot_csv THEN "," ELSE "ws")
             IN  IF ~df.ok THEN Raise("UnderlyingIOFailure", <<"open">>)
                 ELSE IF ~(Range(TXYP) \subseteq {LowerName(c) : c \in Range(df.columns)})
                 THEN Raise("UnderlyingIOFailure", <<"open", "parse">>)
                 \* df[['t', 'x', 'y', 'p']] raises KeyError on labels in another case
                 ELSE IF ~(Range(TXYP) \subseteq Range(df.columns))
                 THEN Raise("UnderlyingIOFailure", <<"open", "parse">>)
                 ELSE Return(DataBundle(SelectFloat32(df, TXYP), Series(df, "t"),
                                        PyList(TXYP)),
                             <<"open", "parse">>)
        ELSE IF file_ext = dot_aedat4
        THEN IF ~aedat_installed THEN Raise("UnderlyingIOFailure", <<>>)
             ELSE DVSIO_read_aedat4(f, file_path)
        ELSE Raise("UnderlyingIOFailure", <<>>)

DVSIO_write(f, d, data_bundle, file_path) ==
    LET file_ext == get_file_extension(file_path)
    IN  IF ~validate_extension(file_path, SUPPORTED_EXTENSIONS["dvs"].write)
        THEN Wrote("UnsupportedFormat", f, d, <<>>)
        ELSE IF data_bundle.kind # "dict" THEN Wrote("Uncaught", f, d, <<>>)
        ELSE LET data == dict_get(data_bundle.data)
             IN  IF data = PyNone \/ ~isinstance_ndarray(data)
                 THEN Wrote("MalformedInput", f, d, <<>>)
                 ELSE IF ndim(data) < 2 THEN Wrote("Uncaught", f, d, <<>>)
                 ELSE IF data.shape[2] # 4 THEN Wrote("MalformedInput", f, d, <<>>)
                 ELSE
    LET columns == dict_get_default(data_bundle.columns, PyList(TXYP))
        d2 == ensure_directory_exists(d, parent(file_path))
    IN  IF file_ext \in {dot_csv, dot_txt}
        THEN LET df == DataFrame(data, columns)
             IN  IF ~df.ok THEN Wrote("UnderlyingIOFailure", f, d2, <<"mkdir">>)
                 \* to_csv raises OSError, caught and rewrapped
                 ELSE IF ~writable(f, file_path)
                 THEN Wrote("UnderlyingIOFailure", f, d2, <<"mkdir">>)
                 ELSE Wrote("ok",
                            [f EXCEPT ![file_path] =
                                IF file_ext = dot_csv THEN to_csv(df)
                                ELSE CsvFile(df.columns, df.rows, "ws", df.dtype)],
                            d2, <<"mkdir", "write", "log">>)
        ELSE IF file_ext = dot_aedat4
        THEN IF ~dv_installed \/ ~writable(f, file_path)
             THEN Wrote("UnderlyingIOFailure", f, d2, <<"mkdir">>)
             ELSE Wrote("ok",
                        [f EXCEPT ![file_path] =
                            AedatFile(<< [r \in 1..nrows(data) |->
                                            [k \in 1..4 |->
                                                IF k = 4 /\ Row(data, r)[4] # 0 THEN 1
                                                ELSE Row(data, r)[k]]] >>)],
                        d2, <<"mkdir", "write", "log">>)
        ELSE Wrote("UnderlyingIOFailure", f, d2, <<"mkdir">>)

(***************************************************************************)
(* modality_io/lidar_io.py                                                 *)
(***************************************************************************)
XYZ == <<"X", "Y", "Z">>

\* a read that takes a .bin file to hold XYZ alone
LidarIO_read_Reshape3(f, file_path) ==
    LET file_ext == get_file_extension(file_path)
        c == f[file_path]
    IN  IF ~validate_extension(file_path, SUPPORTED_EXTENSIONS["lidar"].read)
        THEN Raise("UnsupportedFormat", <<>>)
        ELSE IF file_ext \in {dot_pcd, dot_ply}
        \* o3d.io.read_point_cloud warns and returns an empty cloud on failure
        THEN Return(DataBundle(IF c.kind = "cloud"
                               THEN FromRows(c.pts, 3, "float64")
                               ELSE ndarray(<<0, 3>>, "float64", <<>>),
                               PyNone, PyList(XYZ)),
                    <<"open", "parse">>)
        ELSE IF file_ext \in {dot_las, dot_laz}
        THEN IF c.kind # "cloud" THEN Raise("UnderlyingIOFailure", <<"open">>)
             ELSE Return(DataBundle(FromRows(c.pts, 3, "float64"), PyNone, PyList(XYZ)),
                         <<"open", "parse">>)
        ELSE IF file_ext = dot_bin
        THEN IF c.kind # "bin" THEN Raise("UnderlyingIOFailure", <<"open">>)
             \* reshape(-1, 3)
             ELSE IF Len(c.vals) % 3 # 0
             THEN Raise("UnderlyingIOFailure", <<"open", "parse">>)
             ELSE Return(DataBundle(ndarray(<<Len(c.vals) \div 3, 3>>, "float32", c.vals),
                                    PyNone, PyList(XYZ)),
                         <<"open", "parse">>)
        ELSE Raise("UnderlyingIOFailure", <<>>)

LidarIO_read(f, file_path) ==
    LET file_ext == get_file_extension(file_path)
        c == f[file_path]
    IN  IF ~validate_extension(file_path, SUPPORTED_EXTENSIONS["lidar"].read)
        THEN Raise("UnsupportedFormat", <<>>)
        ELSE IF file_ext \in {dot_pcd, dot_ply}
        \* o3d.io.read_point_cloud warns and returns an empty cloud on failure
        THEN Return(DataBundle(IF c.kind = "cloud"
                               THEN FromRows(c.pts, 3, "float64")
                               ELSE ndarray(<<0, 3>>, "float64", <<>>),
                               PyNone, PyList(XYZ)),
                    <<"open", "parse">>)
        ELSE IF file_ext \in {dot_las, dot_laz}
        THEN IF c.kind # "cloud" THEN Raise("UnderlyingIOFailure", <<"open">>)
             ELSE Return(DataBundle(FromRows(c.pts, 3, "float64"), PyNone, PyList(XYZ)),
                         <<"open", "parse">>)
        ELSE IF file_ext = dot_bin
        THEN IF c.kind # "bin" THEN Raise("UnderlyingIOFailure", <<"open">>)
             \* reshape(-1, 4)
             ELSE IF Len(c.vals) % 4 # 0
             THEN Raise("UnderlyingIOFailure", <<"open", "parse">>)
             ELSE Return(DataBundle(ndarray(<<Len(c.vals) \div 4, 4>>, "float32", c.vals),
                                    PyNone, PyList(XYZ)),
                         <<"open", "parse">>)
        ELSE Raise("UnderlyingIOFailure", <<>>)

LidarIO_write(f, d, data_bundle, file_path) ==
    LET file_ext == get_file_extension(file_path)
    IN  IF ~validate_extension(file_path, SUPPORTED_EXTENSIONS["lidar"].write)
        THEN Wrote("UnsupportedFormat", f, d, <<>>)
        ELSE IF data_bundle.kind # "dict" THEN Wrote("Uncaught", f, d, <<>>)
        ELSE IF data_bundle.data = Absent \/ data_bundle.data = PyNone
        THEN Wrote("MalformedInput", f, d, <<>>)
        ELSE LET data == data_bundle.data
             IN  IF ~isinstance_ndarray(data) THEN Wrote("MalformedInput", f, d, <<>>)
                 ELSE IF ndim(data) < 2 THEN Wrote("Uncaught", f, d, <<>>)
                 ELSE IF data.shape[2] < 3 THEN Wrote("MalformedInput", f, d, <<>>)
                 ELSE
    LET d2 == ensure_directory_exists(d, parent(file_path))
    IN  IF file_ext \in {dot_pcd, dot_ply, dot_las, dot_laz}
        \* Vector3dVector(data[:, :3]); las.x = data[:, 0] ...
        THEN IF ndim(data) # 2 THEN Wrote("UnderlyingIOFailure", f, d2, <<"mkdir">>)
             ELSE IF ~writable(f, file_path)
             \* o3d.io.write_point_cloud warns and returns False, and the
             \* result is not looked at; laspy raises
             THEN IF file_ext \in {dot_pcd, dot_ply}
                  THEN Wrote("ok", f, d2, <<"mkdir", "log">>)
                  ELSE Wrote("UnderlyingIOFailure", f, d2, <<"mkdir">>)
             ELSE Wrote("ok",
                        [f EXCEPT ![file_path] =
                            CloudFile(file_ext, Rows(FirstCols(data, 3)))],
                        d2, <<"mkdir", "write", "log">>)
        ELSE IF file_ext = dot_bin
        THEN IF ~writable(f, file_path)
             THEN Wrote("UnderlyingIOFailure", f, d2, <<"mkdir">>)
             ELSE Wrote("ok",
                   [f EXCEPT ![file_path] = BinFile(astype_float32(data).vals)],
                   d2, <<"mkdir", "write", "log">>)
        ELSE Wrote("UnderlyingIOFailure", f, d2, <<"mkdir">>)

(***************************************************************************)
(* modality_io/imu_io.py.  An IMUIO instance caches the last array read.   *)
(***************************************************************************)
IMUIO_init == [data |-> PyNone, columns |-> PyNone, timestamps |-> PyNone]

gyro_fields == {"gyro_x", "gyro_y", "gyro_z"}
accel_fields == {"accel_x", "accel_y", "accel_z", "x", "y", "z"}
time_fields == {"timestamp", "time", "datetime"}

ColNames == <<"col_0", "col_1", "col_2", "col_3", "col_4", "col_5", "col_6", "col_7">>

\* a stack with the arguments in the other order: the time column comes last
column_stack_TimeLast(ts, sensors) ==
    FromRows([r \in 1..nrows(sensors) |-> Row(sensors, r) \o <<ts.vals[r]>>],
             ncols(sensors) + 1, "float64")

\* np.column_stack((timestamps.reshape(-1, 1), sensors))
column_stack(ts, sensors) ==
    FromRows([r \in 1..nrows(sensors) |-> <<ts.vals[r]>> \o Row(sensors, r)],
             ncols(sensors) + 1, "float64")

ImuRet(outcome, value, self, steps) ==
    [outcome |-> outcome, value |-> value, self |-> self, steps |-> steps]

IMUIO_read(self, f, file_path) ==
    IF ~BaseIO_validate_extension(suffix(file_path), SUPPORTED_EXTENSIONS["imu"].read)
    THEN ImuRet("UnsupportedFormat", PyNone, self, <<>>)
    ELSE
    LET ext == lower(suffix(file_path))
        df == read_csv(f, file_path, IF ext = dot_csv THEN "," ELSE "ws")
        gyro_candidates == SelectSeq(df.columns, LAMBDA col : LowerName(col) \in gyro_fields)
        accel_candidates == SelectSeq(df.columns, LAMBDA col : LowerName(col) \in accel_fields)
        time_candidates == SelectSeq(df.columns, LAMBDA col : LowerName(col) \in time_fields)
        sensor_fields == gyro_candidates \o accel_candidates
    IN  IF ext \notin {dot_csv, dot_txt}
        THEN ImuRet("UnderlyingIOFailure", PyNone, self, <<>>)
        ELSE IF ~df.ok THEN ImuRet("UnderlyingIOFailure", PyNone, self, <<"open">>)
        ELSE IF sensor_fields = <<>>
        THEN ImuRet("UnderlyingIOFailure", PyNone, self, <<"open", "parse">>)
        ELSE IF time_candidates # <<>>
        THEN LET timestamp_column == time_candidates[1]
                 timestamps == Series(df, timestamp_column)
                 combined_data == column_stack(timestamps, SelectFloat32(df, sensor_fields))
             IN  \* self.timestamps is assigned before the sensor columns are
                 \* converted; text cells make the conversion raise
                 IF df.dtype = "object"
                 THEN ImuRet("UnderlyingIOFailure", PyNone,
                             [self EXCEPT !.timestamps = timestamps], <<"open", "parse">>)
                 ELSE
                 ImuRet("ok", combined_data,
                        [data |-> combined_data,
                         columns |-> PyList(<<timestamp_column>> \o sensor_fields),
                         timestamps |-> timestamps],
                        <<"open", "parse">>)
        ELSE LET data == SelectFloat32(df, sensor_fields)
             IN  IF df.dtype = "object"
                 THEN ImuRet("UnderlyingIOFailure", PyNone,
                             [self EXCEPT !.timestamps = PyNone], <<"open", "parse">>)
                 ELSE
                 ImuRet("ok", data,
                        [data |-> data, columns |-> PyList(sensor_fields),
                         timestamps |-> PyNone],
                        <<"open", "parse">>)

\* IMUIO.write(data, file_path, columns, timestamps)
IMUIO_write(self, f, d, data_arg, file_path, columns_arg) ==
    IF file_path = PyNone THEN Wrote("MalformedInput", f, d, <<>>)
    ELSE IF data_arg = PyNone /\ self.data = PyNone
    THEN Wrote("MalformedInput", f, d, <<>>)
    ELSE
    LET data == IF data_arg = PyNone THEN self.data ELSE data_arg
    IN  IF ~isinstance_ndarray(data) THEN Wrote("MalformedInput", f, d, <<>>)
        ELSE IF ~BaseIO_validate_extension(suffix(file_path),
                                           SUPPORTED_EXTENSIONS["imu"].write)
        THEN Wrote("UnsupportedFormat", f, d, <<>>)
        \* columns defaults to the cached labels, then to col_i over data.shape[1]
        ELSE IF columns_arg = PyNone /\ self.columns = PyNone /\ ndim(data) < 2
        THEN Wrote("UnderlyingIOFailure", f, d, <<>>)
        ELSE
    LET columns == IF columns_arg # PyNone THEN columns_arg
                   ELSE IF self.columns # PyNone THEN self.columns
                   ELSE PyList(SubSeq(ColNames, 1, data.shape[2]))
        df == DataFrame(data, columns)
    IN  IF ~df.ok THEN Wrote("UnderlyingIOFailure", f, d, <<>>)
        \* to_csv into a directory that does not exist raises OSError
        ELSE IF parent(file_path) \notin d \/ ~writable(f, file_path)
        THEN Wrote("UnderlyingIOFailure", f, d, <<>>)
        ELSE Wrote("ok", [f EXCEPT ![file_path] = to_csv(df)], d, <<"write", "log">>)

(***************************************************************************)
(* modality_io/rgb_io.py                                                   *)
(***************************************************************************)
RGB == <<"R", "G", "B">>

\* cv2.cvtColor(img, COLOR_BGR2RGB / COLOR_RGB2BGR) on (H, W, 3): each pixel's
\* first and third channel change places; a fourth channel is dropped
SwapRB(vals, ch) ==
    [i \in 1..((Len(vals) \div ch) * 3) |->
        vals[((i - 1) \div 3) * ch + (2 - ((i - 1) % 3)) + 1]]

cvtColor_ok(data) ==
    /\ ndim(data) = 3
    /\ data.shape[3] \in {3, 4}
    /\ data.dtype \in {"uint8", "uint16", "float32"}

Clamp8(v) == IF v < 0 THEN 0 ELSE IF v > 255 THEN 255 ELSE v

\* the 8-bit image the encoder stores: other depths are converted, saturating
Depth8(vals) == [i \in 1..Len(vals) |-> Clamp8(vals[i])]

RGBImageIO_read(f, file_path) ==
    LET c == f[file_path]
    IN  IF ~validate_extension(file_path, SUPPORTED_EXTENSIONS["rgb"].read)
        THEN Raise("UnsupportedFormat", <<>>)
        \* cv2.imread returns None when the file cannot be read
        ELSE IF c.kind # "image" THEN Raise("UnderlyingIOFailure", <<"open">>)
        ELSE Return(DataBundle(ndarray(c.shape, "uint8", SwapRB(c.pix, 3)),
                               PyNone, PyList(RGB)),
                    <<"open", "parse">>)

\* jpeg_error: what the lossy JPEG encoder adds to a channel value (0: none)
RGBImageIO_write(f, d, data_bundle, file_path, jpeg_error) ==
    LET file_ext == get_file_extension(file_path)
    IN  IF ~validate_extension(file_path, SUPPORTED_EXTENSIONS["rgb"].write)
        THEN Wrote("UnsupportedFormat", f, d, <<>>)
        ELSE IF data_bundle.kind # "dict" THEN Wrote("Uncaught", f, d, <<>>)
        ELSE IF data_bundle.data = Absent \/ data_bundle.data = PyNone
        THEN Wrote("MalformedInput", f, d, <<>>)
        ELSE LET data == data_bundle.data
             IN  IF ~isinstance_ndarray(data) THEN Wrote("MalformedInput", f, d, <<>>)
                 ELSE
    LET d2 == ensure_directory_exists(d, parent(file_path))
    IN  \* cv2.error is not caught
        IF ~cvtColor_ok(data) THEN Wrote("Uncaught", f, d2, <<"mkdir">>)
        ELSE LET data_bgr == Depth8(SwapRB(data.vals, data.shape[3]))
                 shape == <<data.shape[1], data.shape[2], 3>>
             IN  \* cv2.imwrite returns False when it cannot write the file,
                 \* and the result is not looked at
                 IF ~writable(f, file_path) THEN Wrote("ok", f, d2, <<"mkdir", "log">>)
                 ELSE IF file_ext = <<".", "j", "p", "g">>
                 THEN Wrote("ok",
                            [f EXCEPT ![file_path] =
                                ImageFile("jpg", shape,
                                          [i \in 1..Len(data_bgr) |->
                                              Clamp8(data_bgr[i] + jpeg_error)])],
                            d2, <<"mkdir", "write", "log">>)
                 ELSE Wrote("ok",
                            [f EXCEPT ![file_path] = ImageFile("png", shape, data_bgr)],
                            d2, <<"mkdir", "write", "log">>)

(***************************************************************************)
(* Module import.  Importing dvs_io, lidar_io and rgb_io registers their    *)
(* class at module level; imu_io registers only in IMUIO.__init__.         *)
(***************************************************************************)
Registry(rd, wr) == [readers |-> rd, writers |-> wr]

\* pkgutil.iter_modules yields the package's modules sorted by name
ModuleNames == <<"base_io", "dvs_io", "facade", "imu_io", "lidar_io", "rgb_io", "utils">>

ImportModule(reg, module_name) ==
    CASE module_name = "dvs_io" ->
           Registry(register_reader(reg.readers, "dvs", "DVSIO"),
                    register_writer(reg.writers, "dvs", "DVSIO"))
      [] module_name = "lidar_io" ->
           Registry(register_reader(reg.readers, "lidar", "LidarIO"),
                    register_writer(reg.writers, "lidar", "LidarIO"))
      [] module_name = "rgb_io" ->
           Registry(register_reader(reg.readers, "rgb", "RGBImageIO"),
                    register_writer(reg.writers, "rgb", "RGBImageIO"))
      [] OTHER -> reg

\* the import loop of facade.py from position i on
RECURSIVE ImportLoop(_, _)
ImportLoop(i, reg) ==
    IF i > Len(ModuleNames) THEN reg
    ELSE IF ModuleNames[i] \notin {"base_io", "utils", "facade"}
         THEN ImportLoop(i + 1, ImportModule(reg, ModuleNames[i]))
         ELSE ImportLoop(i + 1, reg)

\* cls(): the registry after the constructor of a codec class has run
Instantiate(cls, reg) ==
    IF cls = "IMUIO"
    THEN Registry(register_reader(reg.readers, "imu", "IMUIO"),
                  register_writer(reg.writers, "imu", "IMUIO"))
    ELSE reg

Classes == {"DVSIO", "LidarIO", "IMUIO", "RGBImageIO"}

\* reader.read(file_path) on a fresh instance of cls
CodecRead(cls, f, file_path) ==
    CASE cls = "DVSIO" -> DVSIO_read(f, file_path)
      [] cls = "LidarIO" -> LidarIO_read(f, file_path)
      [] cls = "RGBImageIO" -> RGBImageIO_read(f, file_path)
      [] cls = "IMUIO" ->
           LET r == IMUIO_read(IMUIO_init, f, file_path)
           IN  [outcome |-> r.outcome, value |-> r.value, steps |-> r.steps]

\* writer.write(data_bundle, file_path) on a fresh instance of cls
CodecWrite(cls, f, d, data_bundle, file_path, jpeg_error) ==
    CASE cls = "DVSIO" -> DVSIO_write(f, d, data_bundle, file_path)
      [] cls = "LidarIO" -> LidarIO_write(f, d, data_bundle, file_path)
      [] cls = "RGBImageIO" -> RGBImageIO_write(f, d, data_bundle, file_path, jpeg_error)
      [] cls = "IMUIO" -> IMUIO_write(IMUIO_init, f, d, data_bundle, file_path, PyNone)

(***************************************************************************)
(* modality_io/facade.py.  Each operator gives the call's outcome, the     *)
(* value returned, the steps taken in order and the state left behind.     *)
(***************************************************************************)
Call(modality, outcome, value, codec, steps, reg, f, d) ==
    [modality |-> modality, outcome |-> outcome, value |-> value, codec |-> codec,
     steps |-> steps, readers |-> reg.readers, writers |-> reg.writers, fs |-> f, dirs |-> d]

\* a read that goes to the registry and the DVS codec when nothing was resolved
ModalityIO_read_NoEarlyExit(reg, f, d, file_path) ==
    LET modality == resolve_modality_from_extension(file_path, "read")
        reader_cls == get_reader(reg.readers,
                                 IF modality = NoModality THEN "dvs" ELSE modality)
    IN  IF reader_cls = NoClass
        THEN Call(modality, "NoCodecRegistered", PyNone, NoClass,
                  <<"resolve", "get_reader">>, reg, f, d)
        ELSE LET r == CodecRead(reader_cls, f, file_path)
             IN  Call(modality, r.outcome, r.value, reader_cls,
                      <<"resolve", "get_reader", "instantiate">> \o r.steps,
                      Instantiate(reader_cls, reg), f, d)

ModalityIO_read(reg, f, d, file_path) ==
    LET modality == resolve_modality_from_extension(file_path, "read")
    IN  IF modality = NoModality
        THEN Call(modality, "UnsupportedFormat", PyNone, NoClass, <<"resolve">>, reg, f, d)
        ELSE LET reader_cls == get_reader(reg.readers, modality)
             IN  IF reader_cls = NoClass
                 THEN Call(modality, "NoCodecRegistered", PyNone, NoClass,
                           <<"resolve", "get_reader">>, reg, f, d)
                 ELSE LET r == CodecRead(reader_cls, f, file_path)
                      IN  Call(modality, r.outcome, r.value, reader_cls,
                               <<"resolve", "get_reader", "instantiate">> \o r.steps,
                               Instantiate(reader_cls, reg), f, d)

\* a write that lets the path's extension choose the codec when it names one
ModalityIO_write_Resolving(reg, f, d, modality, data_bundle, file_path, jpeg_error) ==
    LET by_extension == resolve_modality_from_extension(file_path, "write")
        writer_cls == get_writer(reg.writers,
                                 IF by_extension = NoModality THEN modality
                                 ELSE by_extension)
    IN  IF writer_cls = NoClass
        THEN Call(modality, "NoCodecRegistered", PyNone, NoClass, <<"get_writer">>, reg, f, d)
        ELSE LET w == CodecWrite(writer_cls, f, d, data_bundle, file_path, jpeg_error)
             IN  Call(modality, w.outcome, PyNone, writer_cls,
                      <<"get_writer", "instantiate">> \o w.steps,
                      Instantiate(writer_cls, reg), w.fs, w.dirs)

ModalityIO_write(reg, f, d, modality, data_bundle, file_path, jpeg_error) ==
    LET writer_cls == get_writer(reg.writers, modality)
    IN  IF writer_cls = NoClass
        THEN Call(modality, "NoCodecRegistered", PyNone, NoClass, <<"get_writer">>, reg, f, d)
        ELSE LET w == CodecWrite(writer_cls, f, d, data_bundle, file_path, jpeg_error)
             IN  Call(modality, w.outcome, PyNone, writer_cls,
                      <<"get_writer", "instantiate">> \o w.steps,
                      Instantiate(writer_cls, reg), w.fs, w.dirs)

ModalityIO_read_with_modality(reg, f, d, modality, file_path) ==
    LET reader_cls == get_reader(reg.readers, modality)
    IN  IF reader_cls = NoClass
        THEN Call(modality, "NoCodecRegistered", PyNone, NoClass, <<"get_reader">>, reg, f, d)
        ELSE LET r == CodecRead(reader_cls, f, file_path)
             IN  Call(modality, r.outcome, r.value, reader_cls,
                      <<"get_reader", "instantiate">> \o r.steps,
                      Instantiate(reader_cls, reg), f, d)

(***************************************************************************)
(* logger/logger_config.py, logger/logger.py, logger/logger_manager.py.    *)
(* A logger of the logging module is its level and its handlers; the root  *)
(* logger has no handler.                                                  *)
(***************************************************************************)
\* a str where None may stand as well
PyStr(s) == [kind |-> "str", val |-> s]

LOGGER_SETTINGS ==
    [name |-> "Project SynapSense", experiment_name |-> PyStr("generic run"),
     log_level |-> "DEBUG",
     available_modes |-> {"development", "debug", "experiment", "benchmark", "test"},
     default_mode |-> "debug", stream_only |-> FALSE, log_file_name |-> PyNone]

\* the modes that have a log directory
LOG_DIR == {"debug", "experiment", "benchmark", "test"}

LoggerNames == {"Project SynapSense", "bench"}

\* name.strip().replace(' ', '_') without the characters re.sub removes
sanitize_filename(name) ==
    CASE name = "Project SynapSense" -> "Project_SynapSense"
      [] name = "generic run" -> "generic_run"
      [] name = "run 1.log" -> "run_1.log"
      [] OTHER -> name

\* mode.lower()
LowerMode(mode) ==
    CASE mode = "Debug" -> "debug" [] mode = "TEST" -> "test" [] OTHER -> mode

\* get_backup_count
get_backup_count(mode) ==
    CASE mode = "development" -> "3" [] mode = "debug" -> "7"
      [] mode = "experiment" -> "10" [] mode = "benchmark" -> "5"
      [] mode = "test" -> "2" [] OTHER -> "5"

ConsoleLevel(mode) ==
    CASE mode = "debug" -> "DEBUG" [] mode = "test" -> "WARNING" [] OTHER -> "INFO"

\* logger.get_logger: the loggers of the logging module after the call
get_logger(loggers, name, experiment_name, log_level, mode_arg, stream_only, log_file_name) ==
    IF loggers[name].handlers # <<>> THEN [outcome |-> "ok", loggers |-> loggers]
    ELSE IF LowerMode(mode_arg) \notin LOGGER_SETTINGS.available_modes
    \* validate_mode raises after logger.setLevel
    THEN [outcome |-> "ValueError",
          loggers |-> [loggers EXCEPT ![name].level = log_level]]
    ELSE
    LET mode == LowerMode(mode_arg)
        logger_label == sanitize_filename(name)
        experiment_label == sanitize_filename(IF experiment_name = PyNone THEN "general"
                                              ELSE experiment_name.val)
        console_handler == [kind |-> "console", level |-> ConsoleLevel(mode),
                            file |-> PyNone]
        \* the generated name ends in the time of day and a random salt
        file_name == IF log_file_name = PyNone
                     THEN <<logger_label, experiment_label, mode, "now", "salt">>
                     ELSE <<sanitize_filename(log_file_name.val)>>
        file_handler == [kind |-> "file", level |-> "DEBUG",
                         file |-> [dir |-> mode, name |-> file_name,
                                   backupCount |-> get_backup_count(mode)]]
    IN  [outcome |-> "ok",
         loggers |-> [loggers EXCEPT ![name] =
                         [level |-> log_level,
                          handlers |->
                              \* get_logging_path raises for a mode without a
                              \* directory; the failure is logged and dropped
                              IF stream_only \/ mode \notin LOG_DIR
                              THEN <<console_handler>>
                              ELSE <<console_handler, file_handler>>]]]

LoggerManager_init ==
    [instance |-> PyNone, init_params |-> PyNone,
     loggers |-> [n \in LoggerNames |-> [level |-> "NOTSET", handlers |-> <<>>]]]

InitParams(name, experiment_name, log_level, mode, stream_only, log_file_name) ==
    [name |-> name, experiment_name |-> experiment_name, mode |-> mode,
     log_level |-> log_level, stream_only |-> stream_only,
     log_file_name |-> log_file_name]

\* LoggerManager.initialize_logger
initialize_logger(lm, p) ==
    IF lm.instance # PyNone THEN [outcome |-> "ok", lm |-> lm]
    ELSE LET r == get_logger(lm.loggers, p.name, p.experiment_name, p.log_level, p.mode,
                             p.stream_only, p.log_file_name)
         IN  IF r.outcome # "ok"
             THEN [outcome |-> r.outcome, lm |-> [lm EXCEPT !.loggers = r.loggers]]
             ELSE [outcome |-> "ok",
                   lm |-> [lm EXCEPT !.loggers = r.loggers, !.instance = PyStr(p.name),
                                     !.init_params = p]]

\* LoggerManager.reinitialize_logger: get_logger is given name, experiment_name
\* and mode, and takes its defaults for the rest
reinitialize_logger(lm) ==
    IF lm.init_params = PyNone THEN [outcome |-> "RuntimeError", lm |-> lm]
    ELSE LET p == lm.init_params
             r == get_logger(lm.loggers, p.name, p.experiment_name,
                             LOGGER_SETTINGS.log_level, p.mode,
                             LOGGER_SETTINGS.stream_only, LOGGER_SETTINGS.log_file_name)
         IN  [outcome |-> r.outcome,
              lm |-> IF r.outcome # "ok" THEN [lm EXCEPT !.loggers = r.loggers]
                     ELSE [lm EXCEPT !.loggers = r.loggers, !.instance = PyStr(p.name)]]

\* LoggerManager.shutdown_logger: the handlers are closed and removed
shutdown_logger(lm) ==
    IF lm.instance = PyNone THEN lm
    ELSE [lm EXCEPT !.loggers[lm.instance.val].handlers = <<>>, !.instance = PyNone]

(***************************************************************************)
(* The inputs of the model: paths, arrays and bundles.                     *)
(***************************************************************************)
Path(dir, name) == [parent |-> dir, name |-> name]

Names ==
    { <<"a", ".", "c", "s", "v">>, <<"a", ".", "T", "X", "T">>,
      <<"a", ".", "b", "i", "n">>, <<"a", ".", "p", "c", "d">>,
      <<"a", ".", "l", "a", "s">>, <<"a", ".", "p", "n", "g">>,
      <<"a", ".", "J", "P", "G">>, <<"a", ".", "j", "p", "e", "g">>,
      <<"a", ".", "x", "y", "z">>, <<"c", "s", "v">> }

Paths == {Path(".", n) : n \in Names} \cup {Path("out", <<"a", ".", "c", "s", "v">>)}

\* an (n, c) array holding base, base + 1, ... in row-major order
Ramp(n, c, base, dtype) == ndarray(<<n, c>>, dtype, [i \in 1..(n * c) |-> base + i - 1])

\* timestamps in microseconds pass the exact range of single precision
BigBase == 16777215

Arrays ==
    {Ramp(n, c, 1, "float64") : n \in 1..MaxRows, c \in {2, 3, 4}}
      \cup {Ramp(MaxRows, 4, BigBase, "float64")}
      \cup {ndarray(<<2, 4>>, "int64", <<0, 1, 2, 1, 1, 3, 4, 0>>)}
      \cup {ndarray(<<3>>, "float64", <<1, 2, 3>>)}
      \cup {ndarray(<<1, 2, 3>>, "uint8", <<10, 20, 30, 40, 50, 255>>)}

\* the labels a caller gives an array with c columns
Labels(a) ==
    IF ndim(a) = 2 /\ a.shape[2] = 4
    THEN {Absent, PyList(TXYP), PyList(<<"T", "X", "Y", "P">>)}
    ELSE IF ndim(a) = 2 /\ a.shape[2] = 3
    THEN {PyList(XYZ), PyList(<<"gyro_x", "gyro_y", "gyro_z">>)}
    ELSE IF ndim(a) = 3 THEN {PyList(RGB)}
    ELSE {Absent}

Bundles ==
    UNION {{DataBundle(a, PyNone, l) : l \in Labels(a)} : a \in Arrays}
      \cup {DataBundle(PyNone, PyNone, Absent), DataBundle(Absent, Absent, Absent),
            DataBundle(PyList(<<1, 2, 3>>), PyNone, Absent)}

\* the files a dataset may hold before the program runs
DatasetFiles(file_path) ==
    LET ext == lower(suffix(file_path))
    IN  IF ext \in {dot_csv, dot_txt}
        THEN {CsvFile(h, <<<<5, 6, 7, 8>>>>, IF ext = dot_csv THEN "," ELSE "ws", "int64") :
                h \in {TXYP, <<"T", "X", "Y", "P">>,
                       <<"Time", "gyro_x", "gyro_y", "gyro_z">>,
                       <<"GYRO_X", "x", "y", "z">>}}
        ELSE IF ext = dot_bin THEN {BinFile(<<1, 2, 3, 4, 5, 6, 7, 8>>)}
        ELSE IF ext = <<".", "j", "p", "e", "g">>
        THEN {ImageFile("jpg", <<1, 1, 3>>, <<1, 2, 3>>)}
        ELSE {}

JpegErrors == {0, 1}

ModalityArgs == ModalitySet \cup {"radar"}

\* the lossy encoder matters to an RGB write alone
JpegErrorsOf(modality) == IF modality = "rgb" THEN JpegErrors ELSE {0}

(***************************************************************************)
(* State machine.  A behaviour is a caller working on one path with one    *)
(* bundle: any sequence of facade calls, codec constructions and changes   *)
(* the environment makes to the file.                                      *)
(***************************************************************************)
NoCall == [op |-> "none", modality |-> NoModality, outcome |-> "ok", value |-> PyNone,
           codec |-> NoClass, steps |-> <<>>, before |-> Registry(<<>>, <<>>)]

Init ==
    /\ path \in Paths
    /\ bundle \in Bundles
    /\ initialized = FALSE
    /\ readers = <<>>
    /\ writers = <<>>
    /\ fs = [p \in Paths |-> NoFile]
    /\ dirs = {"."}
    /\ written = NoModality
    /\ last = NoCall
    /\ history = <<>>
    /\ logger_manager = LoggerManager_init
    /\ resolved = {}
    /\ imu = PyNone

\* import modality_io.facade: the import loop runs once
ImportFacade ==
    /\ ~initialized
    /\ \E reg \in {ImportLoop(1, Registry(readers, writers))} :
          /\ readers' = reg.readers
          /\ writers' = reg.writers
    /\ initialized' = TRUE
    /\ last' = [NoCall EXCEPT !.op = "import"]
    /\ UNCHANGED <<path, bundle, fs, dirs, written, others>>

\* the caller constructs a codec: cls()
Construct(cls) ==
    /\ initialized
    /\ \E reg \in {Instantiate(cls, Registry(readers, writers))} :
          /\ readers' = reg.readers
          /\ writers' = reg.writers
    /\ last' = [NoCall EXCEPT !.op = "construct", !.codec = cls,
                              !.before = Registry(readers, writers)]
    /\ UNCHANGED <<path, bundle, initialized, fs, dirs, written, others>>

\* what a facade call leaves in the state
Finish(op, c) ==
    /\ readers' = c.readers
    /\ writers' = c.writers
    /\ fs' = c.fs
    /\ dirs' = c.dirs
    /\ last' = [op |-> op, modality |-> c.modality, outcome |-> c.outcome,
                value |-> c.value, codec |-> c.codec, steps |-> c.steps,
                before |-> Registry(readers, writers)]
    /\ UNCHANGED <<path, bundle, initialized, others>>

Read ==
    /\ initialized
    /\ \E c \in {ModalityIO_read(Registry(readers, writers), fs, dirs, path)} :
          Finish("read", c)
    /\ UNCHANGED written

ReadWithModality(modality) ==
    /\ initialized
    /\ \E c \in {ModalityIO_read_with_modality(Registry(readers, writers), fs, dirs,
                                               modality, path)} :
          Finish("read_with_modality", c)
    /\ UNCHANGED written

Write(modality, jpeg_error) ==
    /\ initialized
    /\ \E c \in {ModalityIO_write(Registry(readers, writers), fs, dirs, modality,
                                  bundle, path, jpeg_error)} :
          /\ Finish("write", c)
          /\ written' = IF c.outcome = "ok" THEN modality ELSE written

\* the environment puts a dataset file in place, or removes the file
PutFile(content) ==
    /\ parent(path) \in dirs
    /\ fs[path] # content
    /\ fs' = [fs EXCEPT ![path] = content]
    /\ written' = NoModality
    /\ UNCHANGED <<path, bundle, initialized, readers, writers, dirs, last, others>>

DeleteFile ==
    /\ exists(fs, path)
    /\ fs' = [fs EXCEPT ![path] = NoFile]
    /\ written' = NoModality
    /\ UNCHANGED <<path, bundle, initialized, readers, writers, dirs, last, others>>

Next ==
    \/ ImportFacade
    \/ \E cls \in Classes : Construct(cls)
    \/ Read
    \/ \E m \in ModalityArgs : ReadWithModality(m)
    \/ \E m \in ModalityArgs : \E e \in JpegErrorsOf(m) : Write(m, e)
    \/ \E c \in DatasetFiles(path) : PutFile(c)
    \/ DeleteFile

Spec == Init /\ [][Next]_vars

(***************************************************************************)
(* Properties.                                                             *)
(***************************************************************************)
ReadOps == {"read", "read_with_modality"}

\* the extension of the caller's path, lower-cased
PathExt == lower(suffix(path))

\* the modalities whose list for the operation holds the extension, by position
Claimers(ext, operation) ==
    {i \in 1..4 : \E k \in 1..Len(SUPPORTED_EXTENSIONS[Modalities[i]][operation]) :
                     lower(SUPPORTED_EXTENSIONS[Modalities[i]][operation][k]) = ext}

\* C1: a facade write followed by a facade read of the same path succeeds and
\* returns data of the same shape and values as the data written.
C1_RoundTrip ==
    (last.op = "read" /\ written # NoModality) =>
        /\ last.outcome = "ok"
        /\ last.value.kind = "dict"
        /\ last.value.data.shape = bundle.data.shape
        /\ last.value.data.vals = bundle.data.vals

\* C2: once the facade module is initialized the registry holds a reader and a
\* writer for each of dvs, lidar, imu and rgb.
C2_AllRegistered ==
    initialized =>
        \A m \in {"dvs", "lidar", "imu", "rgb"} :
            /\ get_reader(readers, m) # NoClass
            /\ get_writer(writers, m) # NoClass

\* C3: after module initialization no operation changes the registry's readers
\* table or writers table.
C3_RegistryReadOnly ==
    [][initialized => (readers' = readers /\ writers' = writers)]_vars

\* C4: ModalityIO.read of a path whose extension no read list holds fails with
\* the unsupported-format error after the resolution alone: no registry lookup,
\* no codec instance, no file opened; and it fails with the no-codec error only
\* when a modality was resolved and the registry had no reader for it.
C4_UnsupportedBeforeLookup ==
    last.op = "read" =>
        /\ Claimers(PathExt, "read") = {} =>
              /\ last.outcome = "UnsupportedFormat"
              /\ last.steps = <<"resolve">>
              /\ last.codec = NoClass
        /\ last.outcome = "NoCodecRegistered" =>
              /\ Claimers(PathExt, "read") # {}
              /\ last.modality \notin DOMAIN last.before.readers

C4_Witness ==
    /\ last.op = "read"
    /\ PathExt = <<".", "x", "y", "z">>
    /\ last.outcome = "UnsupportedFormat"

\* C5: the facade read resolves the first modality in the order dvs, lidar,
\* imu, rgb whose read list holds the lower-cased extension, and none when no
\* list holds it; .csv and .txt always go to the DVS codec, never to IMU.
C5_FirstMatchDispatch ==
    last.op = "read" =>
        LET order == <<"dvs", "lidar", "imu", "rgb">>
            c == Claimers(PathExt, "read")
        IN  /\ c = {} => last.modality = NoModality
            /\ c # {} => \E i \in c : /\ last.modality = order[i]
                                      /\ \A j \in c : i <= j
            /\ PathExt \in {dot_csv, dot_txt} =>
                  /\ last.modality = "dvs"
                  /\ last.codec = "DVSIO"

C5_Witness ==
    /\ last.op = "read"
    /\ PathExt = dot_txt
    /\ suffix(path) # dot_txt
    /\ last.codec = "DVSIO"
    /\ "imu" \in DOMAIN last.before.readers

\* the read extensions of the specified table (section 6), all modalities
SpecifiedReadExtensions ==
    { dot_aedat4, dot_txt, dot_csv, dot_pcd, dot_ply, dot_las, dot_laz, dot_bin,
      <<".", "p", "n", "g">>, <<".", "j", "p", "g">>, <<".", "j", "p", "e", "g">>,
      <<".", "b", "m", "p">> }

\* C6: a path whose extension, in any letter case, is a read extension of the
\* specified table is resolved to a modality and passes that codec's extension
\* check; a path with any other extension is rejected.
C6_TableAsSpecified ==
    last.op = "read" =>
        IF PathExt \in SpecifiedReadExtensions
        THEN /\ last.modality # NoModality
             /\ last.outcome # "UnsupportedFormat"
        ELSE last.outcome = "UnsupportedFormat"

\* the number of labels of a bundle and the size of the last axis of its data
LabelCount(b) == Len(b.columns.items)

LastAxis(a) == a.shape[Len(a.shape)]

\* C7: on every successful read the number of labels in 'columns' equals the
\* number of columns of 'data' (the channel count for RGB).
C7_ColumnsMatchData ==
    (last.op \in ReadOps /\ last.outcome = "ok") =>
        /\ last.value.kind = "dict"
        /\ last.value.columns.kind = "list"
        /\ LabelCount(last.value) = LastAxis(last.value.data)

\* C8: every successful read returns a record with data, timestamps and
\* columns in which data is not None and timestamps, when present, has one
\* entry per row of data.
C8_ReadReturnsBundle ==
    (last.op \in ReadOps /\ last.outcome = "ok") =>
        /\ last.value.kind = "dict"
        /\ last.value.data # PyNone
        /\ last.value.timestamps # PyNone =>
              Len(last.value.timestamps.vals) = last.value.data.shape[1]

\* a bundle whose data is a numeric array of a shape valid for the modality
ValidBundleFor(modality, b) ==
    /\ b.kind = "dict"
    /\ b.data.kind = "ndarray"
    /\ CASE modality = "dvs" -> ndim(b.data) = 2 /\ b.data.shape[2] = 4
         [] modality = "lidar" -> ndim(b.data) = 2 /\ b.data.shape[2] >= 3
         [] modality = "imu" -> ndim(b.data) = 2
         [] modality = "rgb" -> ndim(b.data) = 3 /\ b.data.shape[3] = 3
         [] OTHER -> FALSE

\* C9: a facade write of a valid bundle to a path whose extension is in the
\* modality's write list does not fail on account of the bundle's type.
C9_WriterTakesBundle ==
    ( /\ last.op = "write"
      /\ last.codec # NoClass
      /\ ValidBundleFor(last.modality, bundle)
      /\ Claimers(PathExt, "write") # {}
      /\ \E i \in Claimers(PathExt, "write") : Modalities[i] = last.modality ) =>
        last.outcome \notin {"MalformedInput", "Uncaught"}

\* the operation a facade call asks of the codec
CodecOperation == IF last.op = "write" THEN "write" ELSE "read"

\* the modality a codec class serves
ModalityOf(cls) ==
    CASE cls = "DVSIO" -> "dvs" [] cls = "LidarIO" -> "lidar"
      [] cls = "IMUIO" -> "imu" [] cls = "RGBImageIO" -> "rgb"

\* C10: a codec read or write of a path whose extension is not in the codec's
\* list for the operation is rejected with the unsupported-format error before
\* any file is opened, parsed or written and before any directory is created.
C10_RejectedBeforeIO ==
    ( /\ last.op \in {"read", "read_with_modality", "write"}
      /\ last.codec # NoClass
      /\ PathExt \notin LowerSet(SUPPORTED_EXTENSIONS[ModalityOf(last.codec)][CodecOperation])
    ) =>
        /\ last.outcome = "UnsupportedFormat"
        /\ \A i \in 1..Len(last.steps) :
              last.steps[i] \notin {"open", "parse", "mkdir", "write"}

(***************************************************************************)
(* A caller that holds one IMUIO instance and calls it directly:           *)
(* the inherited BaseIO.validate_extension and IMUIO.read.                 *)
(***************************************************************************)
dot_CSV == <<".", "C", "S", "V">>

\* the extensions and the lists a caller hands to validate_extension
ExtensionArgs == {<<>>, dot_csv, dot_CSV, <<".", "C", "s", "v">>, dot_txt,
                  <<"c", "s", "v">>, <<".", "x", "y", "z">>}

AllowedArgs == { <<>>, <<dot_csv>>, <<dot_CSV, dot_txt>>, << <<>> >>,
                 <<dot_txt, <<>>, <<".", "C", "s", "v">> >>,
                 SUPPORTED_EXTENSIONS["imu"].read, SUPPORTED_EXTENSIONS["rgb"].read }

IMUPaths == {Path(".", n) : n \in { <<"a", ".", "c", "s", "v">>,
                                    <<"a", ".", "T", "X", "T">>,
                                    <<"a", ".", "b", "i", "n">> }}
              \cup {Path("out", <<"a", ".", "c", "s", "v">>)}

\* the tables an IMU dataset may hold at the path
IMUFiles(file_path) ==
    LET ext == lower(suffix(file_path))
        sep == IF ext = dot_csv THEN "," ELSE "ws"
    IN  IF ext \notin {dot_csv, dot_txt} THEN {BinFile(<<1, 2, 3, 4>>)}
        ELSE {CsvFile(h, [r \in 1..MaxRows |-> [k \in 1..Len(h) |-> 10 * r + k]],
                      sep, "float64") :
                h \in { <<"gyro_x", "gyro_y", "gyro_z">>,
                        <<"Timestamp", "GYRO_X", "Accel_X">>,
                        <<"x", "y", "z", "time">>,
                        <<"z", "gyro_y", "Time", "x", "timestamp">>,
                        <<"time">>,
                        <<"t", "p">>,
                        TXYP }}
          \* tables whose cells are text that is no number (dtype object); a
          \* cell is kept as the position it has in the table
          \cup {CsvFile(h, [r \in 1..MaxRows |-> [k \in 1..Len(h) |-> 10 * r + k]],
                        sep, "object") :
                  h \in { <<"time", "gyro_x", "gyro_y">>, <<"x", "y">> }}

InitIMU ==
    /\ path \in IMUPaths
    /\ bundle = DataBundle(PyNone, PyNone, Absent)
    /\ initialized = TRUE
    /\ readers = <<>>
    /\ writers = <<>>
    /\ fs = [p \in Paths |-> NoFile]
    /\ dirs = {"."}
    /\ written = NoModality
    /\ last = NoCall
    /\ history = <<>>
    /\ logger_manager = LoggerManager_init
    /\ resolved = {}
    /\ imu = PyNone

\* imu = IMUIO()
NewIMUIO ==
    /\ \E reg \in {Instantiate("IMUIO", Registry(readers, writers))} :
          /\ readers' = reg.readers
          /\ writers' = reg.writers
    /\ imu' = IMUIO_init
    /\ last' = [NoCall EXCEPT !.op = "construct", !.codec = "IMUIO",
                              !.before = Registry(readers, writers)]
    /\ UNCHANGED <<path, bundle, initialized, fs, dirs, written, history, resolved, logger_manager>>

\* imu.validate_extension(file_ext, supported_extensions)
ValidateExtension(file_ext, supported_extensions) ==
    /\ imu # PyNone
    /\ last' = [op |-> "validate_extension", file_ext |-> file_ext,
                supported_extensions |-> supported_extensions, outcome |-> "ok",
                value |-> BaseIO_validate_extension(file_ext, supported_extensions)]
    /\ UNCHANGED <<path, bundle, initialized, readers, writers, fs, dirs, written,
                   history, resolved, imu, logger_manager>>

\* imu.read(path): the call's result, the file it saw and the fields it had
IMURead ==
    /\ imu # PyNone
    /\ \E r \in {IMUIO_read(imu, fs, path)} :
          /\ imu' = r.self
          /\ last' = [op |-> "IMUIO.read", outcome |-> r.outcome, value |-> r.value,
                      steps |-> r.steps, file |-> fs[path], self |-> imu]
    /\ UNCHANGED <<path, bundle, initialized, readers, writers, fs, dirs, written,
                   history, resolved, logger_manager>>

\* the arrays and labels a caller hands to imu.write
IMUDataArgs == {PyNone, Ramp(MaxRows, 2, 1, "float64"), Ramp(MaxRows, 3, 1, "float64")}

IMUColumnsArgs == {PyNone, PyList(XYZ)}

\* imu.write(data, path, columns): the call's arguments and result, the file
\* system it saw and left, and the fields the instance had
IMUWrite(data_arg, columns_arg) ==
    /\ imu # PyNone
    /\ \E w \in {IMUIO_write(imu, fs, dirs, data_arg, path, columns_arg)} :
          /\ fs' = w.fs
          /\ dirs' = w.dirs
          /\ written' = IF w.outcome = "ok" THEN "imu" ELSE written
          /\ last' = [op |-> "IMUIO.write", outcome |-> w.outcome, steps |-> w.steps,
                      data |-> data_arg, columns |-> columns_arg, self |-> imu,
                      before |-> [fs |-> fs, dirs |-> dirs],
                      file |-> w.fs[path], dirs |-> w.dirs]
    /\ UNCHANGED <<path, bundle, initialized, readers, writers, others>>

NextIMU ==
    \/ NewIMUIO
    \/ \E e \in ExtensionArgs : \E a \in AllowedArgs : ValidateExtension(e, a)
    \/ IMURead
    \/ \E c \in IMUFiles(path) : PutFile(c)
    \/ DeleteFile

SpecIMU == InitIMU /\ [][NextIMU]_vars

\* the same caller reading and writing through its instance
NextIMUCalls ==
    \/ NewIMUIO
    \/ IMURead
    \/ \E a \in IMUDataArgs : \E c \in IMUColumnsArgs : IMUWrite(a, c)
    \/ \E c \in IMUFiles(path) : PutFile(c)
    \/ DeleteFile

SpecIMUCalls == InitIMU /\ [][NextIMUCalls]_vars

\* two characters that are one letter in either case
CasePair(c, d) ==
    \E i \in 1..Len(UpperChars) : {c, d} = {UpperChars[i], LowerChars[i]}

\* two strings equal when letter case is disregarded
SameIgnoringCase(a, b) ==
    /\ Len(a) = Len(b)
    /\ \A k \in 1..Len(a) : a[k] = b[k] \/ CasePair(a[k], b[k])

\* C11: BaseIO.validate_extension(ext, allowed) is False for the empty
\* extension whatever the list holds, and otherwise True exactly when ext
\* equals an element of the list when letter case is disregarded.
C11_ValidateExtension ==
    last.op = "validate_extension" =>
        last.value =
            ( /\ last.file_ext # <<>>
              /\ \E i \in 1..Len(last.supported_extensions) :
                    SameIgnoringCase(last.file_ext, last.supported_extensions[i]) )

C11_Witness ==
    /\ last.op = "validate_extension"
    /\ last.file_ext = dot_CSV
    /\ last.supported_extensions = SUPPORTED_EXTENSIONS["imu"].read
    /\ last.value = TRUE

\* the registry table a facade call with a caller-supplied modality looks in
TableOf(call) == IF call.op = "write" THEN call.before.writers ELSE call.before.readers

\* C12: ModalityIO.write and ModalityIO.read_with_modality never resolve the
\* modality from the path: they fail with the no-codec error exactly when the
\* registry has no writer (reader) for the modality given, and otherwise call
\* the codec registered for it, whatever the path's extension resolves to.
C12_NoResolution ==
    last.op \in {"write", "read_with_modality"} =>
        /\ (last.outcome = "NoCodecRegistered") <=> (last.modality \notin DOMAIN TableOf(last))
        /\ last.modality \in DOMAIN TableOf(last) =>
              last.codec = TableOf(last)[last.modality]
        /\ "resolve" \notin Range(last.steps)

C12_Witness ==
    /\ last.op = "write"
    /\ last.modality = "lidar"
    /\ last.codec = "LidarIO"
    /\ resolve_modality_from_extension(path, "write") = "dvs"

(***************************************************************************)
(* The registry on its own: any sequence of register and get calls on the  *)
(* class, starting from the empty tables of the class body.                *)
(***************************************************************************)
MaxCalls == 3

RegistryKeys == {"imu", "radar"}

RegistryClasses == {"IMUIO", "DVSIO"}

RegistryCall(op, modality, cls, r) ==
    [op |-> op, modality |-> modality, cls |-> cls, outcome |-> r.outcome,
     value |-> r.value, before |-> Registry(readers, writers)]

InitRegistry ==
    /\ path = Path(".", <<"a", ".", "c", "s", "v">>)
    /\ bundle = DataBundle(PyNone, PyNone, Absent)
    /\ initialized = FALSE
    /\ readers = <<>>
    /\ writers = <<>>
    /\ fs = [p \in Paths |-> NoFile]
    /\ dirs = {"."}
    /\ written = NoModality
    /\ last = NoCall
    /\ history = <<>>
    /\ logger_manager = LoggerManager_init
    /\ resolved = {}
    /\ imu = PyNone

RegisterReader(modality, reader_cls) ==
    /\ Len(history) < MaxCalls
    /\ readers' = register_reader(readers, modality, reader_cls)
    /\ history' = Append(history, [op |-> "register_reader", modality |-> modality,
                                   cls |-> reader_cls])
    /\ last' = RegistryCall("register_reader", modality, reader_cls,
                            [outcome |-> "ok", value |-> NoClass])
    /\ UNCHANGED <<path, bundle, initialized, writers, fs, dirs, written, resolved, imu, logger_manager>>

RegisterWriter(modality, writer_cls) ==
    /\ Len(history) < MaxCalls
    /\ writers' = register_writer(writers, modality, writer_cls)
    /\ history' = Append(history, [op |-> "register_writer", modality |-> modality,
                                   cls |-> writer_cls])
    /\ last' = RegistryCall("register_writer", modality, writer_cls,
                            [outcome |-> "ok", value |-> NoClass])
    /\ UNCHANGED <<path, bundle, initialized, readers, fs, dirs, written, resolved, imu, logger_manager>>

GetReader(modality) ==
    /\ last' = RegistryCall("get_reader", modality, NoClass,
                            IORegistry_get_reader(readers, modality))
    /\ UNCHANGED <<path, bundle, initialized, readers, writers, fs, dirs, written,
                   history, resolved, imu, logger_manager>>

GetWriter(modality) ==
    /\ last' = RegistryCall("get_writer", modality, NoClass,
                            IORegistry_get_writer(writers, modality))
    /\ UNCHANGED <<path, bundle, initialized, readers, writers, fs, dirs, written,
                   history, resolved, imu, logger_manager>>

NextRegistry ==
    \/ \E m \in RegistryKeys : \E cls \in RegistryClasses : RegisterReader(m, cls)
    \/ \E m \in RegistryKeys : \E cls \in RegistryClasses : RegisterWriter(m, cls)
    \/ \E m \in RegistryKeys : GetReader(m)
    \/ \E m \in RegistryKeys : GetWriter(m)

SpecRegistry == InitRegistry /\ [][NextRegistry]_vars

\* C13: get_reader(m) and get_writer(m) never raise: in every registry state
\* and for every modality, registered or not, they return the registered
\* class or None.
C13_LookupNeverRaises ==
    last.op \in {"get_reader", "get_writer"} =>
        LET table == IF last.op = "get_reader" THEN last.before.readers
                     ELSE last.before.writers
        IN  /\ last.outcome = "ok"
            /\ last.value = IF last.modality \in DOMAIN table
                            THEN table[last.modality] ELSE NoClass

C13_Witness ==
    /\ last.op = "get_reader"
    /\ last.before.readers # <<>>
    /\ last.modality \notin DOMAIN last.before.readers
    /\ last.outcome = "ok"
    /\ last.value = NoClass

\* the class passed by the most recent call of op for the modality, or None
MostRecent(h, op, modality) ==
    LET calls == {i \in 1..Len(h) : h[i].op = op /\ h[i].modality = modality}
    IN  IF calls = {} THEN NoClass
        ELSE h[CHOOSE i \in calls : \A j \in calls : j <= i].cls

\* C14: after any sequence of register calls get_reader(m) returns the class
\* of the most recent register_reader(m, .) and None if there was none, and
\* likewise for writers; hence a register_reader call changes neither the
\* writers table nor another modality's entry, and vice versa.
C14_LastWriterWins ==
    /\ \A m \in RegistryKeys :
          /\ get_reader(readers, m) = MostRecent(history, "register_reader", m)
          /\ get_writer(writers, m) = MostRecent(history, "register_writer", m)
    /\ last.op = "get_reader" =>
          last.value = MostRecent(history, "register_reader", last.modality)
    /\ last.op = "get_writer" =>
          last.value = MostRecent(history, "register_writer", last.modality)

C14_Witness ==
    /\ Len(history) = 3
    /\ history[1] = [op |-> "register_reader", modality |-> "imu", cls |-> "DVSIO"]
    /\ history[2].op = "register_writer"
    /\ history[3] = [op |-> "register_reader", modality |-> "imu", cls |-> "IMUIO"]
    /\ last.op = "get_reader"
    /\ last.modality = "imu"
    /\ last.value = "IMUIO"

(***************************************************************************)
(* Resolution called by itself, on the caller's path, between registry and *)
(* codec operations: the import loop, codec constructions, facade reads    *)
(* and writes.                                                             *)
(***************************************************************************)
Operations == {"read", "write"}

ResolvePaths ==
    {Path(".", n) : n \in { <<"a", ".", "c", "s", "v">>, <<"a", ".", "T", "X", "T">>,
                            <<"a", ".", "b", "i", "n">>, <<"a", ".", "J", "P", "G">>,
                            <<"a", ".", "j", "p", "e", "g">>, <<"a", ".", "x", "y", "z">>,
                            <<"c", "s", "v">> }}

InitResolve ==
    /\ path \in ResolvePaths
    /\ bundle \in {DataBundle(Ramp(1, 4, 1, "float64"), PyNone, Absent),
                   DataBundle(ndarray(<<1, 2, 3>>, "uint8", <<10, 20, 30, 40, 50, 255>>),
                              PyNone, PyList(RGB))}
    /\ initialized = FALSE
    /\ readers = <<>>
    /\ writers = <<>>
    /\ fs = [p \in Paths |-> NoFile]
    /\ dirs = {"."}
    /\ written = NoModality
    /\ last = NoCall
    /\ history = <<>>
    /\ logger_manager = LoggerManager_init
    /\ resolved = {}
    /\ imu = PyNone

\* resolve_modality_from_extension(path, operation), kept with the registry
\* keys and the file that were there when it was called
Resolve(operation) ==
    /\ \E modality \in {resolve_modality_from_extension(path, operation)} :
          /\ resolved' = resolved \cup
                 {[operation |-> operation, modality |-> modality,
                   registered |-> DOMAIN readers, file |-> exists(fs, path)]}
          /\ last' = [NoCall EXCEPT !.op = "resolve", !.modality = modality]
    /\ UNCHANGED <<path, bundle, initialized, readers, writers, fs, dirs, written,
                   history, imu, logger_manager>>

NextResolve ==
    \/ ImportFacade
    \/ \E cls \in {"IMUIO", "DVSIO"} : Construct(cls)
    \/ Read
    \/ \E m \in {"dvs", "rgb", "imu"} : Write(m, 0)
    \/ \E operation \in Operations : Resolve(operation)

SpecResolve == InitResolve /\ [][NextResolve]_vars

\* C15: two calls of resolve_modality_from_extension on the same path and
\* operation return the same modality, whatever registry or codec operations
\* happen between them; the resolution inside a facade read agrees with them.
C15_ResolveDeterministic ==
    /\ \A r1 \in resolved : \A r2 \in resolved :
          r1.operation = r2.operation => r1.modality = r2.modality
    /\ last.op = "read" =>
          \A r \in resolved : r.operation = "read" => r.modality = last.modality

C15_Witness ==
    \E r1 \in resolved : \E r2 \in resolved :
        /\ r1.operation = "read" /\ r2.operation = "read"
        /\ r1.modality = "dvs" /\ r2.modality = "dvs"
        /\ r1.registered = {} /\ "imu" \in r2.registered
        /\ ~r1.file /\ r2.file

(***************************************************************************)
(* configs/modality_config.py, LIDAR_PROCESSING_CONFIG.  Lengths are in    *)
(* metres; the two lengths below one metre are given in tenths.            *)
(***************************************************************************)
LIDAR_PROCESSING_CONFIG ==
    [downsampling |-> [voxel_size_tenths |-> 1, uniform_every_k |-> 5],
     outlier_removal |-> [statistical_nb_neighbors |-> 20, statistical_std_ratio |-> 2,
                          radius_nb_points |-> 16, radius_radius_tenths |-> 5],
     resampling |-> [random_sample_size |-> 2048, max_distance |-> 50]]

\* a number passed as an argument; an omitted argument is None
PyNum(n) == [kind |-> "num", val |-> n]

\* the value of "arg or default": None and 0 are falsy
py_or(arg, default) ==
    IF arg.kind = "None" \/ (arg.kind = "num" /\ arg.val = 0) THEN default ELSE arg.val

(***************************************************************************)
(* modality_toolkit/lidar_utils.py.  A stage is given as the set of arrays *)
(* it may return: Open3D's choice of points and numpy's random choice are  *)
(* not fixed by the code.                                                  *)
(***************************************************************************)
\* the sequences of k distinct elements of S
Arrangements(S, k) == {q \in [1..k -> S] : \A i \in 1..k : \A j \in 1..k : q[i] = q[j] => i = j}

\* the ascending index lists over 1..n
RECURSIVE Ascending(_, _)
Ascending(lo, n) ==
    IF lo > n THEN {<<>>}
    ELSE Ascending(lo + 1, n) \cup {<<lo>> \o q : q \in Ascending(lo + 1, n)}

\* point_cloud[indices]
TakeRows(point_cloud, indices) ==
    FromRows([i \in 1..Len(indices) |-> Row(point_cloud, indices[i])],
             ncols(point_cloud), point_cloud.dtype)

\* o3d PointCloud.points of point_cloud[:, :3]: a sequence of XYZ rows
to_open3d_point_cloud(point_cloud) == Rows(FirstCols(point_cloud, 3))

from_open3d_point_cloud(pcd, original_dim) ==
    IF original_dim = 4
    THEN FromRows([r \in 1..Len(pcd) |-> pcd[r] \o <<0>>], 4, "float64")
    ELSE FromRows(pcd, 3, "float64")

\* pcd.voxel_down_sample with a voxel below the one-metre spacing of the
\* model's coordinates: one point per distinct position, in no fixed order
voxel_down_sample(pcd, voxel_size_tenths) ==
    Arrangements(Range(pcd), Cardinality(Range(pcd)))

\* pcd.uniform_down_sample: the points at index 0, k, 2k, ...
uniform_down_sample(pcd, every_k_points) ==
    [i \in 1..((Len(pcd) + every_k_points - 1) \div every_k_points) |->
        pcd[(i - 1) * every_k_points + 1]]

\* pcd.select_by_index(ind) for the index list an outlier filter returns
select_by_index(pcd, ind) == [i \in 1..Len(ind) |-> pcd[ind[i]]]

voxel_downsample(point_cloud, voxel_size) ==
    LET size == py_or(voxel_size, LIDAR_PROCESSING_CONFIG.downsampling.voxel_size_tenths)
        pcd == to_open3d_point_cloud(point_cloud)
    IN  {from_open3d_point_cloud(downsampled_pcd, ncols(point_cloud)) :
            downsampled_pcd \in voxel_down_sample(pcd, size)}

uniform_downsample(point_cloud, every_k_points) ==
    LET k == py_or(every_k_points, LIDAR_PROCESSING_CONFIG.downsampling.uniform_every_k)
        pcd == to_open3d_point_cloud(point_cloud)
    IN  {from_open3d_point_cloud(uniform_down_sample(pcd, k), ncols(point_cloud))}

statistical_outlier_removal(point_cloud) ==
    LET pcd == to_open3d_point_cloud(point_cloud)
    IN  {from_open3d_point_cloud(select_by_index(pcd, ind), ncols(point_cloud)) :
            ind \in Ascending(1, Len(pcd))}

radius_outlier_removal(point_cloud) ==
    LET pcd == to_open3d_point_cloud(point_cloud)
    IN  {from_open3d_point_cloud(select_by_index(pcd, ind), ncols(point_cloud)) :
            ind \in Ascending(1, Len(pcd))}

random_sampling(point_cloud, num_samples) ==
    LET n == py_or(num_samples, LIDAR_PROCESSING_CONFIG.resampling.random_sample_size)
    IN  IF nrows(point_cloud) <= n THEN {point_cloud}
        \* np.random.choice(N, n, replace=False)
        ELSE {TakeRows(point_cloud, indices) :
                indices \in Arrangements(1..nrows(point_cloud), n)}

\* np.linalg.norm(row[:3]) <= max_distance on whole metres: the square root
\* is at most d exactly when the sum of squares is at most d * d
norm_le(row, max_distance) ==
    row[1] * row[1] + row[2] * row[2] + row[3] * row[3] <= max_distance * max_distance

distance_clipping(point_cloud, max_distance) ==
    LET d == py_or(max_distance, LIDAR_PROCESSING_CONFIG.resampling.max_distance)
    IN  {FromRows(SelectSeq(Rows(point_cloud), LAMBDA row : norm_le(row, d)),
                  ncols(point_cloud), point_cloud.dtype)}

(***************************************************************************)
(* A caller applying the LiDAR stages to one point cloud.                  *)
(***************************************************************************)
MaxPoints == 3

\* the origin, a point at distance 5 and a point beyond the default clip
PointXYZ == { <<0, 0, 0>>, <<3, 4, 0>>, <<60, 0, 0>> }

\* intensity and ring, the columns a scan carries beyond XYZ
ExtraColumns == <<7, 9>>

PointClouds ==
    UNION {{FromRows([r \in 1..n |-> q[r] \o SubSeq(ExtraColumns, 1, c - 3)], c, "float64") :
              q \in [1..n -> PointXYZ]} : n \in 0..MaxPoints, c \in {3, 4, 5}}

NumSamplesArgs == {PyNone} \cup {PyNum(n) : n \in 0..MaxPoints}

MaxDistanceArgs == {PyNone, PyNum(0), PyNum(5), PyNum(60)}

VoxelSizeArgs == {PyNone, PyNum(0), PyNum(5)}

EveryKArgs == {PyNone, PyNum(0), PyNum(2)}

InitLidar ==
    /\ path = Path(".", <<"a", ".", "b", "i", "n">>)
    /\ bundle \in {DataBundle(pc, PyNone, PyList(XYZ)) : pc \in PointClouds}
    /\ initialized = TRUE
    /\ readers = <<>>
    /\ writers = <<>>
    /\ fs = [p \in Paths |-> NoFile]
    /\ dirs = {"."}
    /\ written = NoModality
    /\ last = NoCall
    /\ history = <<>>
    /\ logger_manager = LoggerManager_init
    /\ resolved = {}
    /\ imu = PyNone

\* a stage called on the caller's point cloud, returning one of its results
Stage(op, arg, results) ==
    /\ \E value \in results :
          last' = [op |-> op, arg |-> arg, outcome |-> "ok", value |-> value]
    /\ UNCHANGED <<path, bundle, initialized, readers, writers, fs, dirs, written,
                   history, resolved, imu, logger_manager>>

VoxelDownsample(voxel_size) ==
    Stage("voxel_downsample", voxel_size, voxel_downsample(bundle.data, voxel_size))

UniformDownsample(every_k_points) ==
    Stage("uniform_downsample", every_k_points,
          uniform_downsample(bundle.data, every_k_points))

StatisticalOutlierRemoval ==
    Stage("statistical_outlier_removal", PyNone, statistical_outlier_removal(bundle.data))

RadiusOutlierRemoval ==
    Stage("radius_outlier_removal", PyNone, radius_outlier_removal(bundle.data))

RandomSampling(num_samples) ==
    Stage("random_sampling", num_samples, random_sampling(bundle.data, num_samples))

DistanceClipping(max_distance) ==
    Stage("distance_clipping", max_distance, distance_clipping(bundle.data, max_distance))

NextLidar ==
    \/ \E v \in VoxelSizeArgs : VoxelDownsample(v)
    \/ \E k \in EveryKArgs : UniformDownsample(k)
    \/ StatisticalOutlierRemoval
    \/ RadiusOutlierRemoval
    \/ \E n \in NumSamplesArgs : RandomSampling(n)
    \/ \E d \in MaxDistanceArgs : DistanceClipping(d)

SpecLidar == InitLidar /\ [][NextLidar]_vars

\* the number a caller asked for: the argument, or the configured default
\* when the argument was omitted
Requested(arg, default) == IF arg = PyNone THEN default ELSE arg.val

\* C16: random_sampling never returns more rows than requested (0 and an
\* omitted num_samples included), and returns the input unchanged when it has
\* no more rows than requested.
C16_RandomSampling ==
    last.op = "random_sampling" =>
        LET n == Requested(last.arg, LIDAR_PROCESSING_CONFIG.resampling.random_sample_size)
        IN  /\ nrows(last.value) <= n
            /\ nrows(bundle.data) <= n => last.value = bundle.data

\* C17: distance_clipping returns exactly the rows whose norm over the first
\* three columns is at most max_distance (0 included), in their order and
\* with all their columns; rows at exactly max_distance are kept.
C17_DistanceClipping ==
    last.op = "distance_clipping" =>
        LET d == Requested(last.arg, LIDAR_PROCESSING_CONFIG.resampling.max_distance)
            kept == SelectSeq(Rows(bundle.data),
                              LAMBDA row : row[1] * row[1] + row[2] * row[2]
                                             + row[3] * row[3] <= d * d)
        IN  /\ Rows(last.value) = kept
            /\ ncols(last.value) = ncols(bundle.data)

GeometryStages == {"voxel_downsample", "uniform_downsample",
                   "statistical_outlier_removal", "radius_outlier_removal"}

\* C18: every LiDAR stage returns an array with as many columns as its input,
\* for every column count from 3 up; the geometry-only stages return zeros in
\* each column beyond XYZ.
C18_ColumnsPreserved ==
    last.op \in GeometryStages \cup {"random_sampling", "distance_clipping"} =>
        /\ ncols(last.value) = ncols(bundle.data)
        /\ last.op \in GeometryStages =>
              \A r \in 1..nrows(last.value) : \A k \in 4..ncols(last.value) :
                  Row(last.value, r)[k] = 0

\* a facade step that reads the delimited-text file at the caller's path with
\* the DVS codec (a repeated read with the same result is a stuttering step)
DVSTextRead ==
    /\ last'.op \in ReadOps
    /\ last' # last
    /\ last'.codec = "DVSIO"
    /\ PathExt \in {dot_csv, dot_txt}
    /\ fs[path].kind = "csv"
    /\ fs[path].sep = IF PathExt = dot_csv THEN "," ELSE "ws"

\* C19: a DVS read of a delimited-text file succeeds whenever the header holds
\* t, x, y and p in any letter case, returning four data columns labelled
\* t, x, y, p; it fails only when one of the four is absent when case is
\* disregarded.
C19_DVSHeaderAnyCase ==
    [][DVSTextRead =>
          /\ (last'.outcome = "ok") <=>
                (Range(TXYP) \subseteq {LowerName(c) : c \in Range(fs[path].header)})
          /\ last'.outcome = "ok" =>
                /\ ncols(last'.value.data) = 4
                /\ last'.value.columns = PyList(TXYP)]_vars

\* the sensor and time column names of the IMU format, lower-cased
SensorNames == {"gyro_x", "gyro_y", "gyro_z", "accel_x", "accel_y", "accel_z", "x", "y", "z"}

TimeNames == {"timestamp", "time", "datetime"}

\* the last call was IMUIO.read of a table of numbers in the path's delimiter
IMUTableRead ==
    /\ last.op = "IMUIO.read"
    /\ PathExt \in {dot_csv, dot_txt}
    /\ last.file.kind = "csv"
    /\ last.file.sep = IF PathExt = dot_csv THEN "," ELSE "ws"
    /\ last.file.dtype # "object"

\* C20: IMU read finds the gyro, accel/axis and time columns by name with
\* letter case disregarded; it fails exactly when no gyro and no accel/axis
\* column is found; without a time column timestamps is None and data has one
\* column per sensor column found; with a time column that column is the
\* first column of data and the first entry of columns.
C20_IMUFieldGroups ==
    IMUTableRead =>
        LET header == last.file.header
            sensors == SelectSeq(header, LAMBDA c : LowerName(c) \in SensorNames)
            times == SelectSeq(header, LAMBDA c : LowerName(c) \in TimeNames)
            n == Len(last.file.rows)
        IN  /\ (last.outcome = "ok") <=> (sensors # <<>>)
            /\ last.outcome = "ok" => last.value = imu.data
            /\ (last.outcome = "ok" /\ times = <<>>) =>
                  /\ imu.timestamps = PyNone
                  /\ imu.data.shape = <<n, Len(sensors)>>
                  /\ Len(imu.columns.items) = Len(sensors)
                  /\ Range(imu.columns.items) = Range(sensors)
            /\ (last.outcome = "ok" /\ times # <<>>) =>
                  /\ imu.timestamps # PyNone
                  /\ imu.data.shape = <<n, 1 + Len(sensors)>>
                  /\ imu.columns.items[1] \in Range(times)
                  /\ Range(Tail(imu.columns.items)) = Range(sensors)
                  /\ \E k \in 1..Len(header) :
                        /\ header[k] = imu.columns.items[1]
                        /\ \A r \in 1..n :
                              /\ Row(imu.data, r)[1] = last.file.rows[r][k]
                              /\ imu.timestamps.vals[r] = last.file.rows[r][k]

C20_Witness ==
    /\ IMUTableRead
    /\ last.outcome = "ok"
    /\ last.file.header = <<"z", "gyro_y", "Time", "x", "timestamp">>
    /\ imu.columns = PyList(<<"Time", "gyro_y", "z", "x">>)
    /\ imu.data.shape = <<MaxRows, 4>>

\* a facade step that reads the caller's path with the LiDAR codec
LidarRead ==
    /\ last'.op \in ReadOps
    /\ last' # last
    /\ last'.codec = "LidarIO"

\* C21: a LiDAR read of a .bin file holding k float32 values returns data of
\* shape (k/4, 4) when k is a multiple of 4 and fails with the wrapped error
\* otherwise; a read of a .pcd, .ply, .las or .laz file returns 3 columns.
C21_LidarColumnCount ==
    [][LidarRead =>
          /\ (PathExt = dot_bin /\ fs[path].kind = "bin") =>
                LET k == Len(fs[path].vals)
                IN  IF k % 4 = 0
                    THEN /\ last'.outcome = "ok"
                         /\ last'.value.data.shape = <<k \div 4, 4>>
                         /\ last'.value.data.vals = fs[path].vals
                    ELSE last'.outcome = "UnderlyingIOFailure"
          /\ (PathExt \in {dot_pcd, dot_ply, dot_las, dot_laz} /\ last'.outcome = "ok") =>
                /\ ndim(last'.value.data) = 2
                /\ ncols(last'.value.data) = 3]_vars

C21_Witness ==
    /\ last.op = "read"
    /\ last.codec = "LidarIO"
    /\ PathExt = dot_bin
    /\ last.outcome = "ok"
    /\ written = "lidar"
    /\ last.value.data.shape = <<MaxRows, 4>>

\* 'data' values the DVS and LiDAR encoders are to reject
NotAnArray(b) == b.data = Absent \/ b.data = PyNone \/ b.data.kind # "ndarray"

BadDVSData(b) == NotAnArray(b) \/ ndim(b.data) # 2 \/ b.data.shape[2] # 4

BadLidarData(b) == NotAnArray(b) \/ ndim(b.data) < 2 \/ b.data.shape[2] < 3

\* C22: a DVS write rejects with the malformed-input error every data that is
\* absent, not an array or not of shape (N, 4); a LiDAR write every data that
\* is absent, not an array or has fewer than 3 columns, 1-D arrays included;
\* and it does so before the parent directory is created or anything written.
C22_EncodePreconditions ==
    ( /\ last.op = "write"
      /\ last.codec \in {"DVSIO", "LidarIO"}
      /\ PathExt \in LowerSet(SUPPORTED_EXTENSIONS[ModalityOf(last.codec)].write)
      /\ IF last.codec = "DVSIO" THEN BadDVSData(bundle) ELSE BadLidarData(bundle) ) =>
        /\ last.outcome = "MalformedInput"
        /\ \A i \in 1..Len(last.steps) : last.steps[i] \notin {"mkdir", "write"}

\* the direct IMUIO.write call of the last step, made with its parent
\* directory in place
IMUWriteInPlace ==
    IMUIO_write(last.self, last.before.fs,
                last.before.dirs \cup {parent(path)}, last.data, path, last.columns)

\* C23: a write whose extension and data pass validation creates the missing
\* parent directories before it writes the file: an IMUIO.write that succeeds
\* when the directory is there succeeds all the same when it is not, and the
\* directory and the file exist afterwards.
C23_ParentDirectoriesCreated ==
    (last.op = "IMUIO.write" /\ IMUWriteInPlace.outcome = "ok") =>
        /\ last.outcome = "ok"
        /\ parent(path) \in last.dirs
        /\ last.file = IMUWriteInPlace.fs[path]

\* C24: when IMUIO.read raises, the instance's cached data, columns and
\* timestamps are all exactly as they were before the call.
C24_ReadAllOrNothing ==
    (last.op = "IMUIO.read" /\ last.outcome # "ok") => imu = last.self

(***************************************************************************)
(* A caller that writes through codec instances it constructs, to a path   *)
(* the environment may have made unwritable.                               *)
(***************************************************************************)
WriteBundles ==
    {DataBundle(Ramp(MaxRows, c, 1, "float64"), PyNone, Absent) : c \in {3, 4}}
      \cup {DataBundle(ndarray(<<1, 2, 3>>, "uint8", <<10, 20, 30, 40, 50, 255>>),
                       PyNone, PyList(RGB)),
            DataBundle(PyNone, PyNone, Absent)}

InitCodecWrite ==
    /\ path \in Paths
    /\ bundle \in WriteBundles
    /\ initialized = TRUE
    /\ readers = <<>>
    /\ writers = <<>>
    /\ fs = [p \in Paths |-> NoFile]
    /\ dirs = {"."}
    /\ written = NoModality
    /\ last = NoCall
    /\ history = <<>>
    /\ logger_manager = LoggerManager_init
    /\ resolved = {}
    /\ imu = PyNone

\* the environment makes a directory of the path's name
MakeDirectoryAtPath ==
    /\ parent(path) \in dirs
    /\ fs[path] = NoFile
    /\ fs' = [fs EXCEPT ![path] = Directory]
    /\ UNCHANGED <<path, bundle, initialized, readers, writers, dirs, written, last,
                   others>>

\* cls().write(...): DVSIO, LidarIO and RGBImageIO take the bundle, IMUIO the array
DirectWrite(cls, jpeg_error) ==
    /\ \E reg \in {Instantiate(cls, Registry(readers, writers))} :
          /\ readers' = reg.readers
          /\ writers' = reg.writers
    /\ \E w \in {IF cls = "IMUIO"
                 THEN IMUIO_write(IMUIO_init, fs, dirs, dict_get(bundle.data), path, PyNone)
                 ELSE CodecWrite(cls, fs, dirs, bundle, path, jpeg_error)} :
          /\ fs' = w.fs
          /\ dirs' = w.dirs
          /\ written' = IF w.outcome = "ok" THEN ModalityOf(cls) ELSE written
          /\ last' = [op |-> "codec.write", codec |-> cls, outcome |-> w.outcome,
                      steps |-> w.steps, file |-> w.fs[path]]
    /\ UNCHANGED <<path, bundle, initialized, others>>

NextCodecWrite ==
    \/ MakeDirectoryAtPath
    \/ \E cls \in Classes : \E e \in JpegErrors : DirectWrite(cls, e)
    \/ DeleteFile

SpecCodecWrite == InitCodecWrite /\ [][NextCodecWrite]_vars

\* C25: no write failure is swallowed: a codec write that left no output file
\* at the path raised to its caller and logged no success.
C25_NoSwallowedWriteFailure ==
    (last.op = "codec.write" /\ last.file \in {NoFile, Directory}) =>
        /\ last.outcome # "ok"
        /\ "log" \notin Range(last.steps)

(***************************************************************************)
(* modality_toolkit/imu_utils.py.  The stages compute with real numbers:   *)
(* an element of a stage's array is num / den, divided once more by the    *)
(* column's (std + 1e-8) when per says so.                                 *)
(***************************************************************************)
Real(num, den) == [num |-> num, den |-> den, per |-> "one"]

PerStd(num, den) == [num |-> num, den |-> den, per |-> "std+eps"]

\* column k of a 2-D array, as a sequence
Column(a, k) == [r \in 1..nrows(a) |-> Row(a, r)[k]]

RECURSIVE SumRange(_, _, _)
SumRange(seq, lo, hi) == IF lo > hi THEN 0 ELSE seq[lo] + SumRange(seq, lo + 1, hi)

Max(a, b) == IF a >= b THEN a ELSE b

Min(a, b) == IF a <= b THEN a ELSE b

\* np.convolve(a, np.ones(window_size) / window_size, mode='same'): the middle
\* max(N, M) elements of the full convolution, which has N + M - 1 elements
convolve_same(a, window_size) ==
    LET N == Len(a)
        off == (Min(N, window_size) - 1) \div 2
    IN  [i \in 1..Max(N, window_size) |->
            LET k == i - 1 + off
            IN  Real(SumRange(a, Max(0, k - window_size + 1) + 1, Min(N - 1, k) + 1),
                     window_size)]

\* np.hstack of columns of equal length, given as sequences
ColumnsToArray(cols) ==
    ndarray(<<Len(cols[1]), Len(cols)>>, "float64",
            [i \in 1..(Len(cols[1]) * Len(cols)) |->
                cols[((i - 1) % Len(cols)) + 1][((i - 1) \div Len(cols)) + 1]])

\* extract_sensor_data: the columns kept, or <<>> when it raises
extract_sensor_data(imu_data, with_time) ==
    IF imu_data.shape[2] < 3 THEN <<>>
    ELSE [k \in 1..(ncols(imu_data) - (IF with_time THEN 1 ELSE 0)) |->
             Column(imu_data, k + (IF with_time THEN 1 ELSE 0))]

DefaultWindowSize == 5

moving_average_filter(imu_data, window_size_arg, with_time) ==
    LET window_size == IF window_size_arg = PyNone THEN DefaultWindowSize
                       ELSE window_size_arg.val
        data == extract_sensor_data(imu_data, with_time)
        filtered == [i \in 1..Len(data) |-> convolve_same(data[i], window_size)]
        time == [r \in 1..nrows(imu_data) |-> Real(Row(imu_data, r)[1], 1)]
    IN  IF data = <<>> THEN Raise("MalformedInput", <<>>)
        ELSE IF ~with_time THEN Return(ColumnsToArray(filtered), <<"log">>)
        \* np.hstack of N time rows with max(N, window_size) filtered rows
        ELSE IF Len(filtered[1]) # Len(time) THEN Raise("Uncaught", <<>>)
        ELSE Return(ColumnsToArray(<<time>> \o filtered), <<"log">>)

normalize_imu(imu_data, with_time) ==
    LET data == extract_sensor_data(imu_data, with_time)
        N == nrows(imu_data)
        \* (x - mean) / (std + 1e-8), with x - mean = (N x - sum) / N
        normalized == [i \in 1..Len(data) |->
                          [r \in 1..N |->
                              PerStd(N * data[i][r] - SumRange(data[i], 1, N), N)]]
        time == [r \in 1..N |-> Real(Row(imu_data, r)[1], 1)]
    IN  IF data = <<>> THEN Raise("MalformedInput", <<>>)
        ELSE IF ~with_time THEN Return(ColumnsToArray(normalized), <<"log">>)
        ELSE Return(ColumnsToArray(<<time>> \o normalized), <<"log">>)

MaxSamples == 3

MaxWindow == 4

\* recordings of 1..MaxSamples rows, with a leading time column in seconds
Recordings ==
    {ndarray(<<n, c>>, "float64",
             Flatten([r \in 1..n |-> <<t0 + r - 1>> \o [k \in 1..(c - 1) |-> 10 * r + k]])) :
        n \in 1..MaxSamples, c \in {2, 3, 4}, t0 \in {0, 7}}

WindowSizeArgs == {PyNone} \cup {PyNum(w) : w \in 1..MaxWindow}

InitIMUTools ==
    /\ path = Path(".", <<>>)
    /\ bundle \in {DataBundle(a, PyNone, Absent) : a \in Recordings}
    /\ initialized = TRUE
    /\ readers = <<>>
    /\ writers = <<>>
    /\ fs = [p \in Paths |-> NoFile]
    /\ dirs = {"."}
    /\ written = NoModality
    /\ last = NoCall
    /\ history = <<>>
    /\ logger_manager = LoggerManager_init
    /\ resolved = {}
    /\ imu = PyNone

\* what a stage call leaves in the state: its arguments and its result
ToolCall(op, arg, with_time, r) ==
    /\ last' = [op |-> op, arg |-> arg, with_time |-> with_time,
                outcome |-> r.outcome, value |-> r.value]
    /\ UNCHANGED <<path, bundle, initialized, readers, writers, fs, dirs, written, others>>

MovingAverageFilter(window_size, with_time) ==
    \E r \in {moving_average_filter(bundle.data, window_size, with_time)} :
        ToolCall("moving_average_filter", window_size, with_time, r)

NormalizeIMU(with_time) ==
    \E r \in {normalize_imu(bundle.data, with_time)} :
        ToolCall("normalize_imu", PyNone, with_time, r)

SetMax(S) == CHOOSE x \in S : \A y \in S : y <= x

SetMin(S) == CHOOSE x \in S : \A y \in S : x <= y

\* resample_imu on rows in ascending time: bins of int(1e3 / target_frequency)
\* milliseconds from the first sample's bin to the last one's, the mean of the
\* samples in each bin, empty bins filled in linearly between their neighbours
resample_imu(imu_data, target_frequency, with_time) ==
    LET resample_interval == 1000 \div target_frequency
        N == nrows(imu_data)
        ms == [r \in 1..N |-> 1000 * Row(imu_data, r)[1]]
        BinOf(r) == (ms[r] \div resample_interval) - (ms[1] \div resample_interval) + 1
        bins == BinOf(N)
        Members(b) == {r \in 1..N : BinOf(r) = b}
        \* sum and count of column k over the bin
        Total(k, b) == SumRange(Column(imu_data, k), SetMin(Members(b)), SetMax(Members(b)))
        Count(b) == Cardinality(Members(b))
        Value(k, b) ==
            IF Members(b) # {} THEN Real(Total(k, b), Count(b))
            ELSE LET lo == SetMax({BinOf(r) : r \in {q \in 1..N : BinOf(q) < b}})
                     hi == SetMin({BinOf(r) : r \in {q \in 1..N : BinOf(q) > b}})
                 IN  Real(Total(k, lo) * Count(hi) * (hi - b)
                            + Total(k, hi) * Count(lo) * (b - lo),
                          Count(lo) * Count(hi) * (hi - lo))
        resampled_time == [b \in 1..bins |->
                              Real(((ms[1] \div resample_interval) + b - 1) * resample_interval,
                                   1000)]
        resampled_data == [k \in 1..(ncols(imu_data) - 1) |->
                              [b \in 1..bins |-> Value(k + 1, b)]]
    IN  IF imu_data.shape[2] < 2 THEN Raise("MalformedInput", <<>>)
        ELSE IF ~with_time THEN Raise("MalformedInput", <<>>)
        \* pandas refuses the frequency "0L"
        ELSE IF resample_interval = 0 THEN Raise("Uncaught", <<>>)
        ELSE Return(ColumnsToArray(<<resampled_time>> \o resampled_data), <<"log">>)

MaxFrequency == 8

\* target frequencies in Hz, up to and beyond one sample per millisecond
TargetFrequencies == 1..MaxFrequency \cup {1001}

ResampleIMU(target_frequency, with_time) ==
    \E r \in {resample_imu(bundle.data, target_frequency, with_time)} :
        ToolCall("resample_imu", PyNum(target_frequency), with_time, r)

NextIMUTools ==
    \/ \E w \in WindowSizeArgs : \E t \in BOOLEAN : MovingAverageFilter(w, t)
    \/ \E t \in BOOLEAN : NormalizeIMU(t)
    \/ \E f \in TargetFrequencies : \E t \in BOOLEAN : ResampleIMU(f, t)

SpecIMUTools == InitIMUTools /\ [][NextIMUTools]_vars

\* the last call was the stage op on the recording, and returned
StageReturned(op) == last.op = op /\ last.outcome = "ok"

\* the leading column of the result is the recording's time column
TimeCarried ==
    /\ nrows(last.value) = nrows(bundle.data)
    /\ \A r \in 1..nrows(bundle.data) :
          Row(last.value, r)[1] = Real(Row(bundle.data, r)[1], 1)

\* C26: moving_average_filter returns, for the recording's N rows and every
\* window_size >= 1, larger than N included, an array of exactly N rows and of
\* the recording's column count, whose leading column with with_time=True is
\* the recording's time column; normalize_imu carries the time column through
\* in the same way.
C26_FilterKeepsShapeAndTime ==
    /\ (last.op = "moving_average_filter" /\ ncols(bundle.data) >= 3) =>
          /\ last.outcome = "ok"
          /\ last.value.shape = bundle.data.shape
          /\ last.with_time => TimeCarried
    /\ (last.op = "normalize_imu" /\ ncols(bundle.data) >= 3) =>
          /\ last.outcome = "ok"
          /\ last.value.shape = bundle.data.shape
          /\ last.with_time => TimeCarried

\* C29: resample_imu regenerates time on a grid whose spacing is that of the
\* target frequency: for every integer target_frequency >= 1 the call returns
\* rows a positive 1 / target_frequency seconds apart, and the call with
\* with_time=False always fails.
C29_ResampleGrid ==
    last.op = "resample_imu" =>
        IF last.with_time
        THEN /\ last.outcome = "ok"
             /\ \A r \in 1..(nrows(last.value) - 1) :
                   LET t == Row(last.value, r)[1]
                       u == Row(last.value, r + 1)[1]
                   IN  /\ u.den = t.den
                       /\ u.num > t.num
                       /\ (u.num - t.num) * last.arg.val = t.den
        ELSE last.outcome # "ok"

\* the last direct IMUIO call, made on an instance that did nothing before
FreshIMUWrite ==
    IMUIO_write(IMUIO_init, last.before.fs, last.before.dirs, last.data, path, last.columns)

FreshIMURead == IMUIO_read(IMUIO_init, [fs EXCEPT ![path] = last.file], path)

\* C27: codecs are stateless: what an IMUIO read or write does depends on its
\* arguments and the file alone, so it is what an instance without earlier
\* calls does with the same arguments.
C27_CodecsStateless ==
    /\ last.op = "IMUIO.write" =>
          /\ last.outcome = FreshIMUWrite.outcome
          /\ last.file = FreshIMUWrite.fs[path]
    /\ last.op = "IMUIO.read" =>
          /\ last.outcome = FreshIMURead.outcome
          /\ last.value = FreshIMURead.value

\* the modalities whose write list holds the path's extension
WritableAs == {m \in ModalitySet : PathExt \in LowerSet(SUPPORTED_EXTENSIONS[m].write)}

\* C28: for every modality m and every extension in m's write list,
\* resolve_modality_from_extension(path, 'read') returns m, and a facade read
\* of a file written as m goes to the codec of m.
C28_WriteReadDispatch ==
    /\ \A r \in resolved :
          r.operation = "read" => \A m \in WritableAs : r.modality = m
    /\ (last.op = "read" /\ written # NoModality) => last.modality = written

(***************************************************************************)
(* A program that sets its logger up, shuts it down and sets it up again.  *)
(***************************************************************************)
LoggerParams ==
    {InitParams("bench", e, l, m, s, f) :
        e \in {PyStr("generic run"), PyNone}, l \in {"DEBUG", "WARNING"},
        m \in {"debug", "development", "TEST", "verbose"}, s \in BOOLEAN,
        f \in {PyNone, PyStr("run 1.log")}}

InitLogger ==
    /\ path = Path(".", <<>>)
    /\ bundle = DataBundle(PyNone, PyNone, Absent)
    /\ initialized = TRUE
    /\ readers = <<>>
    /\ writers = <<>>
    /\ fs = [p \in Paths |-> NoFile]
    /\ dirs = {"."}
    /\ written = NoModality
    /\ last = NoCall
    /\ history = <<>>
    /\ logger_manager = LoggerManager_init
    /\ resolved = {}
    /\ imu = PyNone

\* what a LoggerManager call leaves in the state
LoggerCall(op, outcome, lm) ==
    /\ logger_manager' = lm
    /\ last' = [op |-> op, outcome |-> outcome, before |-> logger_manager]
    /\ UNCHANGED <<path, bundle, initialized, readers, writers, fs, dirs, written,
                   history, resolved, imu>>

InitializeLogger(p) ==
    \E r \in {initialize_logger(logger_manager, p)} :
        LoggerCall("initialize_logger", r.outcome, r.lm)

\* LoggerManager.get_logger(): initializes with the defaults when there is none
GetLogger ==
    \E r \in {initialize_logger(logger_manager,
                                InitParams(LOGGER_SETTINGS.name,
                                           LOGGER_SETTINGS.experiment_name,
                                           LOGGER_SETTINGS.log_level,
                                           LOGGER_SETTINGS.default_mode,
                                           LOGGER_SETTINGS.stream_only,
                                           LOGGER_SETTINGS.log_file_name))} :
        LoggerCall("get_logger", r.outcome, r.lm)

ReinitializeLogger ==
    \E r \in {reinitialize_logger(logger_manager)} :
        LoggerCall("reinitialize_logger", r.outcome, r.lm)

ShutdownLogger ==
    \E lm \in {shutdown_logger(logger_manager)} :
        LoggerCall("shutdown_logger", "ok", lm)

NextLogger ==
    \/ \E p \in LoggerParams : InitializeLogger(p)
    \/ GetLogger
    \/ ReinitializeLogger
    \/ ShutdownLogger

SpecLogger == InitLogger /\ [][NextLogger]_vars

\* the loggers get_logger builds from all six values given to initialize_logger
BuiltFromInitParams ==
    LET p == last.before.init_params
    IN  get_logger(last.before.loggers, p.name, p.experiment_name, p.log_level, p.mode,
                   p.stream_only, p.log_file_name).loggers

\* C30: reinitialize_logger raises RuntimeError when the logger was never
\* initialized; otherwise it builds the logger from the six values given to
\* initialize_logger, so that after a shutdown a logger initialized with
\* stream_only=True has no file handler again.
C30_ReinitializeWithInitParams ==
    last.op = "reinitialize_logger" =>
        IF last.before.init_params = PyNone
        THEN last.outcome = "RuntimeError" /\ logger_manager = last.before
        ELSE /\ last.outcome = "ok"
             /\ logger_manager.instance = PyStr(last.before.init_params.name)
             /\ logger_manager.loggers = BuiltFromInitParams


=============================================================================
